---- MODULE Spec2Model ----
(***************************************************************************)
(* A model of com.qwirx.data.Cursor (src/Cursor.js) over a                 *)
(* com.qwirx.data.SimpleDatasource (src/unnamed/part_000).                 *)
(*                                                                         *)
(* Every method is a function from a "world" W to a world.  A world holds  *)
(* the Datasource rows, the fields of every Cursor bound to it, the        *)
(* notifications dispatched so far during the running call, the exception  *)
(* in flight ("none" when there is none) and the value returned.  A method *)
(* that throws leaves in the world the mutations made before the throw,    *)
(* exactly as the JavaScript does.                                         *)
(***************************************************************************)
EXTENDS Integers, Sequences, FiniteSets, TLC

(* ------------------------------ bounds -------------------------------- *)

\* The largest number of rows the Datasource is allowed to grow to.
MaxRows == 2
\* The longest Datasource scanned from BOF to EOF.
MaxScanRows == 5

(* --------------------------- values, records --------------------------- *)

\* JavaScript values of a field: undefined, the number 1 ("n1"), the string
\* "1" ("s1") and the number 2 ("n2").  1 == "1" under loose equality;
\* undefined and 2 equal only themselves.  Values are the ones written by
\* setFieldValue; 2 is found in the rows the Datasource starts with.
Undef == "undef"
Values == {"undef", "n1", "s1"}

\* JavaScript's == on these values.
LooseEq(a, b) ==
    \/ a = b
    \/ (a = "n1" /\ b = "s1")
    \/ (a = "s1" /\ b = "n1")

\* The column schema of the test Datasource: [{name:'id'}, {name:'name'}].
columns_ == <<"id", "name">>

ColumnNames == {columns_[i] : i \in 1..Len(columns_)}

\* A JavaScript object used as a record: a function from the keys it owns.
EmptyObject == [k \in {} |-> Undef]

hasOwnProperty(obj, k) == k \in DOMAIN obj

\* obj[k]: undefined when the object does not own the key.
Prop(obj, k) == IF k \in DOMAIN obj THEN obj[k] ELSE Undef

\* obj[k] = v
SetProp(obj, k, v) ==
    [x \in (DOMAIN obj) \cup {k} |-> IF x = k THEN v ELSE obj[x]]

\* A nullable reference to an object: <<>> is null/undefined, <<o>> is o.
Null == <<>>
Ref(obj) == <<obj>>
IsNull(ref) == Len(ref) = 0
Deref(ref) == ref[1]

(* ------------------------------ positions ------------------------------ *)

\* A position is one of the strings BOF, EOF, NEW or a number; NoPos stands
\* for an argument or event field that is absent (undefined).
BOF == [tag |-> "BOF", idx |-> 0]
EOF == [tag |-> "EOF", idx |-> 0]
\* (NEW is a reserved word of TLA+: the constant Cursor.NEW is written NEW_.)
NEW_ == [tag |-> "NEW", idx |-> 0]
NoPos == [tag |-> "NONE", idx |-> 0]
Idx(n) == [tag |-> "IDX", idx |-> n]
IsInt(p) == p.tag = "IDX"

Cursors == {"c1", "c2"}

\* The order in which the Cursors were constructed, which is the order in
\* which their ROWS_INSERT listeners were registered.
CursorOrder == <<"c1", "c2">>

(* ------------------------- notifications, worlds ----------------------- *)

\* A dispatched notification.  src is the Cursor or "ds" (the Datasource);
\* a field the event object does not carry is NoPos, 0 or <<>>.
Event(src, type, position, newPosition, numRows, rows) ==
    [src |-> src, type |-> type, position |-> position,
     newPosition |-> newPosition, numRows |-> numRows, rows |-> rows]

\* What the listeners of a Cursor answer during one call: allowDiscard and
\* allowOverwrite are FALSE when some listener of BEFORE_DISCARD
\* (BEFORE_OVERWRITE) returns false, others is FALSE when some listener of
\* any other notification does.  No method dispatches both BEFORE_DISCARD
\* and BEFORE_OVERWRITE, so the answers are drawn together.
Listeners ==
    {[allowDiscard |-> b, allowOverwrite |-> b, others |-> b] : b \in BOOLEAN}

\* goog.events.EventTarget.dispatchEvent: every listener runs before the
\* call returns; the notification is recorded in the order of dispatch,
\* and with it what a listener finds when it runs: the rows and the fields
\* of the Cursors at the moment of the dispatch.
dispatchEvent(W, ev) ==
    [W EXCEPT !.log = Append(@, ev),
              !.seen = Append(@, [data_ |-> W.data_, cur |-> W.cur])]

\* The value dispatchEvent returns: false iff a listener returned false.
dispatchResult(lis, type) ==
    CASE type = "BEFORE_DISCARD" -> lis.allowDiscard
      [] type = "BEFORE_OVERWRITE" -> lis.allowOverwrite
      [] OTHER -> lis.others

Throw(W, e) == [W EXCEPT !.exc = e]
Thrown(W) == W.exc # "none"
Return(W, v) == [W EXCEPT !.ret = v]
\* A returned object, or the object an exception carries.
ReturnObj(W, ref) == [W EXCEPT !.obj = ref]

\* One statement after another: the rest of a method, F, runs on the world
\* the statement left unless the statement threw, and then the exception
\* propagates with the world as the statement left it.
Bind(W, F(_)) == IF Thrown(W) THEN W ELSE F(W)

(* ------------------------ SimpleDatasource reads ----------------------- *)

getCount(W) == Len(W.data_)

\* Datasource.assertValidRow(rowIndex, opt_maxIndex); opt_maxIndex is <<>>
\* when the argument is omitted.
assertValidRow(W, rowIndex, opt_maxIndex) ==
    LET maxIndex == IF opt_maxIndex = <<>> THEN Len(W.data_) - 1
                    ELSE opt_maxIndex[1]
    IN  IF rowIndex < 0 THEN Throw(W, "NoSuchRecord")
        ELSE IF rowIndex > maxIndex THEN Throw(W, "NoSuchRecord")
        ELSE W

\* The row stored at a JavaScript (0-based) index.
Row(W, rowIndex) == W.data_[rowIndex + 1]

(* --------------------- Cursor: loading and moving ---------------------- *)

\* The record of the Datasource projected on the columns, as the loop of
\* reloadRecord builds it: every column name becomes an own property.
ProjectOnColumns(record) == [k \in ColumnNames |-> Prop(record, k)]

\* A faulty reloadRecord: the record of the Datasource is copied with the
\* properties it owns, whatever the columns are.
reloadRecord_copiesRow(W, c) ==
    LET pos == W.cur[c].position_
    IN  IF pos = BOF \/ pos = EOF
        THEN [W EXCEPT !.cur[c].currentRecordValues_ = Null,
                       !.cur[c].currentRecordAsLoaded_ = Null,
                       !.cur[c].sameObject = FALSE]
        ELSE IF pos = NEW_
        THEN [W EXCEPT !.cur[c].currentRecordValues_ = Ref(EmptyObject),
                       !.cur[c].currentRecordAsLoaded_ = Ref(EmptyObject),
                       !.cur[c].sameObject = FALSE]
        ELSE Bind(assertValidRow(
                    [W EXCEPT
                       !.cur[c].currentRecordValues_ = Ref(EmptyObject),
                       !.cur[c].currentRecordAsLoaded_ = Ref(EmptyObject),
                       !.cur[c].sameObject = FALSE],
                    pos.idx, <<>>), LAMBDA W2 :
             [W2 EXCEPT
                !.cur[c].currentRecordValues_ = Ref(Row(W2, pos.idx)),
                !.cur[c].currentRecordAsLoaded_ = Ref(Row(W2, pos.idx))])

\* Cursor.reloadRecord.  At an integer position both objects are reset to
\* {} before Datasource.get runs, so they stay {} if get throws.  The two
\* fields get an object literal each: they are never one object.
reloadRecord(W, c) ==
    LET pos == W.cur[c].position_
    IN  IF pos = BOF \/ pos = EOF
        THEN [W EXCEPT !.cur[c].currentRecordValues_ = Null,
                       !.cur[c].currentRecordAsLoaded_ = Null,
                       !.cur[c].sameObject = FALSE]
        ELSE IF pos = NEW_
        THEN [W EXCEPT !.cur[c].currentRecordValues_ = Ref(EmptyObject),
                       !.cur[c].currentRecordAsLoaded_ = Ref(EmptyObject),
                       !.cur[c].sameObject = FALSE]
        ELSE Bind(assertValidRow(
                    [W EXCEPT
                       !.cur[c].currentRecordValues_ = Ref(EmptyObject),
                       !.cur[c].currentRecordAsLoaded_ = Ref(EmptyObject),
                       !.cur[c].sameObject = FALSE],
                    pos.idx, <<>>), LAMBDA W2 :
             [W2 EXCEPT
                !.cur[c].currentRecordValues_ =
                    Ref(ProjectOnColumns(Row(W2, pos.idx))),
                !.cur[c].currentRecordAsLoaded_ =
                    Ref(ProjectOnColumns(Row(W2, pos.idx)))])

\* A faulty moveInternal: the old position is read after position_ has been
\* assigned, so MOVE_TO carries the new position twice.
moveInternal_oldPositionReadLate(W, c, newPosition) ==
    Bind(reloadRecord([W EXCEPT !.cur[c].position_ = newPosition], c),
         LAMBDA W2 :
    dispatchEvent(W2,
        Event(c, "MOVE_TO", W2.cur[c].position_, newPosition, 0, <<>>)))

\* A faulty moveInternal: MOVE_TO is dispatched before the position is
\* assigned and the record reloaded.
moveInternal_notifiesFirst(W, c, newPosition) ==
    LET oldPosition == W.cur[c].position_
    IN  Bind(dispatchEvent(W,
                Event(c, "MOVE_TO", oldPosition, newPosition, 0, <<>>)),
             LAMBDA W2 :
        reloadRecord([W2 EXCEPT !.cur[c].position_ = newPosition], c))

\* Cursor.moveInternal: position first, then reload, then MOVE_TO.
moveInternal(W, c, newPosition) ==
    LET oldPosition == W.cur[c].position_
    IN  Bind(reloadRecord([W EXCEPT !.cur[c].position_ = newPosition], c),
             LAMBDA W2 :
        dispatchEvent(W2,
            Event(c, "MOVE_TO", oldPosition, newPosition, 0, <<>>)))

RECURSIVE ShiftPosition(_, _)

\* A faulty loop: a row inserted exactly at the position does not shift it
\* (rowIndex < newPosition instead of rowIndex <= newPosition).
ShiftPosition_strictlyBelow(newPosition, affected) ==
    IF affected = <<>> THEN newPosition
    ELSE LET rowIndex == Head(affected)
         IN  IF IsInt(newPosition) /\ rowIndex < newPosition.idx
             THEN ShiftPosition(Idx(newPosition.idx + 1), Tail(affected))
             ELSE ShiftPosition(newPosition, Tail(affected))

\* The loop of handleDataSourceRowInsert.  rowIndex <= newPosition is false
\* when newPosition is one of the strings BOF, EOF, NEW.
ShiftPosition(newPosition, affected) ==
    IF affected = <<>> THEN newPosition
    ELSE LET rowIndex == Head(affected)
         IN  IF IsInt(newPosition) /\ rowIndex <= newPosition.idx
             THEN ShiftPosition(Idx(newPosition.idx + 1), Tail(affected))
             ELSE ShiftPosition(newPosition, Tail(affected))

\* Cursor.handleDataSourceRowInsert
handleDataSourceRowInsert(W, c, affected) ==
    LET oldPosition == W.cur[c].position_
        newPosition == ShiftPosition(oldPosition, affected)
    IN  IF newPosition # oldPosition
        THEN moveInternal(W, c, newPosition)
        ELSE W

(* ------------------------ SimpleDatasource writes ---------------------- *)

\* The listeners of ROWS_INSERT, in registration order; an exception thrown
\* by one of them leaves the later ones uncalled.
RECURSIVE fireRowsInsert(_, _, _)
fireRowsInsert(W, listeners, affected) ==
    IF listeners = <<>> \/ Thrown(W) THEN W
    ELSE fireRowsInsert(
            handleDataSourceRowInsert(W, Head(listeners), affected),
            Tail(listeners), affected)

\* data_.splice(rowIndex, 0, record)
SpliceInsert(rows, rowIndex, record) ==
    SubSeq(rows, 1, rowIndex) \o <<record>> \o
        SubSeq(rows, rowIndex + 1, Len(rows))

\* data_.splice(rowIndex, 1, record)
SpliceReplace(rows, rowIndex, record) ==
    [rows EXCEPT ![rowIndex + 1] = record]

\* data_.splice(rowIndex, 1)
SpliceRemove(rows, rowIndex) ==
    SubSeq(rows, 1, rowIndex) \o SubSeq(rows, rowIndex + 2, Len(rows))

\* SimpleDatasource.get: returns a copy of the row.
get(W, rowIndex) ==
    Bind(assertValidRow(W, rowIndex, <<>>), LAMBDA W1 :
    ReturnObj(W1, Ref(Row(W1, rowIndex))))

\* SimpleDatasource.insert
insert(W, rowIndex, newRecord) ==
    Bind(assertValidRow(W, rowIndex, <<Len(W.data_)>>), LAMBDA W1 :
    fireRowsInsert(
        dispatchEvent(
            [W1 EXCEPT !.data_ = SpliceInsert(@, rowIndex, newRecord)],
            Event("ds", "ROWS_INSERT", NoPos, NoPos, 0, <<rowIndex>>)),
        CursorOrder, <<rowIndex>>))

\* A faulty add: the index is read after the row was inserted.
add_indexReadLate(W, newRecord) ==
    Bind(insert(W, Len(W.data_), newRecord), LAMBDA W1 :
    Return(W1, Idx(Len(W1.data_))))

\* SimpleDatasource.add
add(W, newRecord) ==
    LET pos == Len(W.data_)
    IN  Bind(insert(W, pos, newRecord), LAMBDA W1 : Return(W1, Idx(pos)))

\* A faulty replace: a Cursor standing on the replaced row reloads it, as
\* if the Cursor listened to ROWS_UPDATE.
replace_reloadsCursors(W, rowIndex, newRecord) ==
    Bind(assertValidRow(W, rowIndex, <<>>), LAMBDA W1 :
    Bind(dispatchEvent(
            [W1 EXCEPT !.data_ = SpliceReplace(@, rowIndex, newRecord)],
            Event("ds", "ROWS_UPDATE", NoPos, NoPos, 0, <<rowIndex>>)),
         LAMBDA W2 :
    Bind(IF W2.cur["c1"].position_ = Idx(rowIndex)
         THEN reloadRecord(W2, "c1") ELSE W2, LAMBDA W3 :
    IF W3.cur["c2"].position_ = Idx(rowIndex)
    THEN reloadRecord(W3, "c2") ELSE W3)))

\* SimpleDatasource.replace
replace(W, rowIndex, newRecord) ==
    Bind(assertValidRow(W, rowIndex, <<>>), LAMBDA W1 :
    dispatchEvent(
        [W1 EXCEPT !.data_ = SpliceReplace(@, rowIndex, newRecord)],
        Event("ds", "ROWS_UPDATE", NoPos, NoPos, 0, <<rowIndex>>)))

\* A faulty remove: ROWS_DELETE is dispatched before the index is checked.
remove_notifiesFirst(W, rowIndex) ==
    Bind(assertValidRow(
            dispatchEvent(W,
                Event("ds", "ROWS_DELETE", NoPos, NoPos, 0, <<rowIndex>>)),
            rowIndex, <<>>), LAMBDA W1 :
    [W1 EXCEPT !.data_ = SpliceRemove(@, rowIndex)])

\* SimpleDatasource.remove
remove(W, rowIndex) ==
    Bind(assertValidRow(W, rowIndex, <<>>), LAMBDA W1 :
    dispatchEvent(
        [W1 EXCEPT !.data_ = SpliceRemove(@, rowIndex)],
        Event("ds", "ROWS_DELETE", NoPos, NoPos, 0, <<rowIndex>>)))

\* A faulty comparison: only the second loop, over the keys of the expected
\* values, so a key that only the actual row owns is never looked at.
isDifferent_expectedKeysOnly(expectedCurrentValues, actualCurrentValues) ==
    \E k \in DOMAIN expectedCurrentValues :
        ~LooseEq(expectedCurrentValues[k], Prop(actualCurrentValues, k))

\* The two loops of atomicReplace: some key owned by either object has
\* loosely different values in the two (a missing key reads undefined).
isDifferent(expectedCurrentValues, actualCurrentValues) ==
    \/ \E k \in DOMAIN actualCurrentValues :
          ~LooseEq(Prop(expectedCurrentValues, k), actualCurrentValues[k])
    \/ \E k \in DOMAIN expectedCurrentValues :
          ~LooseEq(expectedCurrentValues[k], Prop(actualCurrentValues, k))

\* A faulty atomicReplace: the comparison is left out.
atomicReplace_unguarded(W, rowIndex, expectedCurrentValues, newValues) ==
    replace(W, rowIndex, newValues)

\* Datasource.atomicReplace
atomicReplace(W, rowIndex, expectedCurrentValues, newValues) ==
    Bind(assertValidRow(W, rowIndex, <<>>), LAMBDA W1 :
    IF isDifferent(expectedCurrentValues, Row(W1, rowIndex))
    THEN ReturnObj(Throw(W1, "ConcurrentModification"),
                   Ref(Row(W1, rowIndex)))
    ELSE replace(W1, rowIndex, newValues))

(* ------------------------- Cursor: the methods ------------------------- *)

getPosition(W, c) == W.cur[c].position_

\* A faulty isDirty: the first loop compares the values only, so a key the
\* loaded values do not own reads undefined there and is not noticed when
\* the current value is undefined too.
isDirty_valuesOnly(cursor) ==
    LET newValues == cursor.currentRecordValues_
        oldValues == cursor.currentRecordAsLoaded_
    IN  IF IsNull(newValues) THEN FALSE
        ELSE \/ \E prop \in DOMAIN Deref(newValues) :
                  ~LooseEq(Prop(Deref(oldValues), prop), Deref(newValues)[prop])
             \/ \E prop \in DOMAIN Deref(oldValues) :
                  ~hasOwnProperty(Deref(newValues), prop)

\* Cursor.isDirty, on the two objects of one Cursor.
isDirty(cursor) ==
    LET newValues == cursor.currentRecordValues_
        oldValues == cursor.currentRecordAsLoaded_
    IN  IF IsNull(newValues) THEN FALSE
        ELSE \/ \E prop \in DOMAIN Deref(newValues) :
                  \/ ~hasOwnProperty(Deref(oldValues), prop)
                  \/ ~LooseEq(Deref(oldValues)[prop], Deref(newValues)[prop])
             \/ \E prop \in DOMAIN Deref(oldValues) :
                  ~hasOwnProperty(Deref(newValues), prop)

\* A faulty assertValidPosition: the row count itself passes as a position
\* (position <= rowCount instead of position < rowCount).
assertValidPosition_inclusive(W, c, position) ==
    LET rowCount == getCount(W)
    IN  IF \/ position = BOF
           \/ position = EOF
           \/ position = NEW_
           \/ (IsInt(position) /\ position.idx >= 0 /\ position.idx <= rowCount)
        THEN W
        ELSE Throw(W, "IllegalMove")

\* Cursor.assertValidPosition (getRowCount is never null for a
\* SimpleDatasource).
assertValidPosition(W, c, position) ==
    LET rowCount == getCount(W)
    IN  IF \/ position = BOF
           \/ position = EOF
           \/ position = NEW_
           \/ (IsInt(position) /\ position.idx >= 0 /\ position.idx < rowCount)
        THEN W
        ELSE Throw(W, "IllegalMove")

\* Cursor.assertCurrentRecord
assertCurrentRecord(W, c) ==
    IF W.cur[c].position_ = BOF \/ W.cur[c].position_ = EOF
    THEN Throw(W, "NoCurrentRecord")
    ELSE W

\* Cursor.assertValidField
assertValidField(W, fieldName) ==
    IF \E i \in 1..Len(columns_) : columns_[i] = fieldName
    THEN W
    ELSE Throw(W, "NoSuchField")

\* Cursor.getLoadedValues: a clone of currentRecordAsLoaded_.
getLoadedValues(W, c) ==
    Bind(assertCurrentRecord(W, c), LAMBDA W1 :
    ReturnObj(W1, W1.cur[c].currentRecordAsLoaded_))

\* Cursor.getCurrentValues: a clone of currentRecordValues_.
getCurrentValues(W, c) ==
    Bind(assertCurrentRecord(W, c), LAMBDA W1 :
    ReturnObj(W1, W1.cur[c].currentRecordValues_))

RECURSIVE setPosition(_, _, _, _)

\* A faulty discard: the loaded object itself, not a clone of it, becomes
\* the current values.
discard_sharesLoaded(W, c, opt_newPosition, lis) ==
    Bind(assertCurrentRecord(W, c), LAMBDA W1 :
    IF ~isDirty(W1.cur[c]) THEN W1
    ELSE
    Bind(dispatchEvent(
            [W1 EXCEPT !.cur[c].currentRecordValues_ =
                           W1.cur[c].currentRecordAsLoaded_,
                       !.cur[c].sameObject = TRUE],
            Event(c, "DISCARD", getPosition(W1, c), opt_newPosition,
                  0, <<>>)), LAMBDA W3 :
    Bind(IF getPosition(W3, c) = NEW_
         THEN setPosition(W3, c, Idx(getCount(W3) - 1), lis)
         ELSE W3, LAMBDA W4 :
    dispatchEvent(W4,
        Event(c, "MODIFIED", getPosition(W4, c), NoPos, 0, <<>>)))))

\* A faulty discard: the listeners of BEFORE_DISCARD are asked, and may
\* block it.
discard_asks(W, c, opt_newPosition, lis) ==
    Bind(assertCurrentRecord(W, c), LAMBDA W1 :
    IF ~isDirty(W1.cur[c]) THEN W1
    ELSE
    Bind(dispatchEvent(W1,
            Event(c, "BEFORE_DISCARD", getPosition(W1, c), opt_newPosition,
                  0, <<>>)), LAMBDA W2 :
    IF ~dispatchResult(lis, "BEFORE_DISCARD")
    THEN Throw(W2, "DiscardBlocked")
    ELSE
    Bind(dispatchEvent(
            [W2 EXCEPT !.cur[c].currentRecordValues_ =
                           getLoadedValues(W2, c).obj,
                       !.cur[c].sameObject = FALSE],
            Event(c, "DISCARD", getPosition(W2, c), opt_newPosition,
                  0, <<>>)), LAMBDA W3 :
    Bind(IF getPosition(W3, c) = NEW_
         THEN setPosition(W3, c, Idx(getCount(W3) - 1), lis)
         ELSE W3, LAMBDA W4 :
    dispatchEvent(W4,
        Event(c, "MODIFIED", getPosition(W4, c), NoPos, 0, <<>>))))))

\* Cursor.discard
discard(W, c, opt_newPosition, lis) ==
    Bind(assertCurrentRecord(W, c), LAMBDA W1 :
    IF ~isDirty(W1.cur[c]) THEN W1
    ELSE
    Bind([W1 EXCEPT !.cur[c].currentRecordValues_ =
                        getLoadedValues(W1, c).obj,
                    !.cur[c].sameObject = FALSE], LAMBDA W2 :
    Bind(dispatchEvent(W2,
            Event(c, "DISCARD", getPosition(W2, c), opt_newPosition,
                  0, <<>>)), LAMBDA W3 :
    Bind(IF getPosition(W3, c) = NEW_
         THEN setPosition(W3, c, Idx(getCount(W3) - 1), lis)
         ELSE W3, LAMBDA W4 :
    dispatchEvent(W4,
        Event(c, "MODIFIED", getPosition(W4, c), NoPos, 0, <<>>))))))

\* A faulty maybeDiscard: the edits are discarded before the answer of the
\* BEFORE_DISCARD listeners is looked at.
maybeDiscard_discardsFirst(W, c, opt_newPosition, lis) ==
    IF ~isDirty(W.cur[c]) THEN W
    ELSE
    Bind(assertCurrentRecord(W, c), LAMBDA W1 :
    Bind(dispatchEvent(W1,
            Event(c, "BEFORE_DISCARD", getPosition(W1, c), opt_newPosition,
                  0, <<>>)), LAMBDA W2 :
    Bind(discard(W2, c, NoPos, lis), LAMBDA W3 :
    LET cancelled == ~dispatchResult(lis, "BEFORE_DISCARD")
    IN  IF cancelled THEN Throw(W3, "DiscardBlocked") ELSE W3)))

\* A faulty maybeDiscard: the listeners are asked whenever a record is
\* loaded, dirty or not.
maybeDiscard_alwaysAsks(W, c, opt_newPosition, lis) ==
    IF IsNull(W.cur[c].currentRecordValues_) THEN W
    ELSE
    Bind(assertCurrentRecord(W, c), LAMBDA W1 :
    Bind(dispatchEvent(W1,
            Event(c, "BEFORE_DISCARD", getPosition(W1, c), opt_newPosition,
                  0, <<>>)), LAMBDA W2 :
    LET cancelled == ~dispatchResult(lis, "BEFORE_DISCARD")
    IN  IF cancelled THEN Throw(W2, "DiscardBlocked")
        ELSE discard(W2, c, NoPos, lis)))

\* Cursor.maybeDiscard
maybeDiscard(W, c, opt_newPosition, lis) ==
    IF ~isDirty(W.cur[c]) THEN W
    ELSE
    Bind(assertCurrentRecord(W, c), LAMBDA W1 :
    Bind(dispatchEvent(W1,
            Event(c, "BEFORE_DISCARD", getPosition(W1, c), opt_newPosition,
                  0, <<>>)), LAMBDA W2 :
    LET cancelled == ~dispatchResult(lis, "BEFORE_DISCARD")
    IN  IF cancelled THEN Throw(W2, "DiscardBlocked")
        ELSE discard(W2, c, NoPos, lis)))

\* A faulty setPosition: the discard protocol runs before the target is
\* validated.
setPosition_discardsFirst(W, c, newPosition, lis) ==
    Bind(maybeDiscard(W, c, newPosition, lis), LAMBDA W1 :
    Bind(assertValidPosition(W1, c, newPosition), LAMBDA W2 :
    IF newPosition # W2.cur[c].position_
    THEN moveInternal(W2, c, newPosition)
    ELSE W2))

\* A faulty setPosition: the target is compared with the position the
\* Cursor had before the discard protocol ran.
setPosition_positionReadEarly(W, c, newPosition, lis) ==
    Bind(assertValidPosition(W, c, newPosition), LAMBDA W1 :
    Bind(maybeDiscard(W1, c, newPosition, lis), LAMBDA W2 :
    IF newPosition # W.cur[c].position_
    THEN moveInternal(W2, c, newPosition)
    ELSE W2))

\* Cursor.setPosition
setPosition(W, c, newPosition, lis) ==
    Bind(assertValidPosition(W, c, newPosition), LAMBDA W1 :
    Bind(maybeDiscard(W1, c, newPosition, lis), LAMBDA W2 :
    IF newPosition # W2.cur[c].position_
    THEN moveInternal(W2, c, newPosition)
    ELSE W2))

\* The target moveRelative computes before it clamps; <<>> when it throws
\* IllegalMove instead.
RelativeTarget(position, rowCount, numRowsToMove) ==
    IF numRowsToMove = 0 THEN <<position>>
    ELSE IF position = BOF
    THEN (IF numRowsToMove < 0 THEN <<>> ELSE <<Idx(numRowsToMove - 1)>>)
    ELSE IF position = EOF \/ position = NEW_
    THEN (IF numRowsToMove > 0 THEN <<>>
          ELSE <<Idx(rowCount + numRowsToMove)>>)
    ELSE <<Idx(position.idx + numRowsToMove)>>

\* A faulty clamp: an index equal to the row count is taken for a row
\* (> instead of >=).
Clamp_pastLastRow(newPosition, rowCount) ==
    IF newPosition = BOF \/ newPosition = EOF \/ newPosition = NEW_
    THEN newPosition
    ELSE IF newPosition.idx < 0 THEN BOF
    ELSE IF newPosition.idx > rowCount THEN EOF
    ELSE newPosition

\* The adjustment of moveRelative: below 0 is BOF, rowCount and above EOF.
Clamp(newPosition, rowCount) ==
    IF newPosition = BOF \/ newPosition = EOF \/ newPosition = NEW_
    THEN newPosition
    ELSE IF newPosition.idx < 0 THEN BOF
    ELSE IF newPosition.idx >= rowCount THEN EOF
    ELSE newPosition

\* A faulty moveRelative: a listener of MOVE_FORWARD that returns false
\* cancels the move.
moveRelative_cancellable(W, c, numRowsToMove, lis) ==
    LET rowCount == getCount(W)
        target == RelativeTarget(W.cur[c].position_, rowCount, numRowsToMove)
    IN  IF target = <<>> THEN Throw(W, "IllegalMove")
        ELSE
        LET newPosition == Clamp(target[1], rowCount)
        IN  Bind(assertValidPosition(W, c, newPosition), LAMBDA W1 :
            Bind(maybeDiscard(W1, c, newPosition, lis), LAMBDA W2 :
            Bind(dispatchEvent(W2,
                    Event(c, "MOVE_FORWARD", NoPos, newPosition,
                          numRowsToMove, <<>>)), LAMBDA W3 :
            IF ~dispatchResult(lis, "MOVE_FORWARD") THEN Return(W3, NoPos)
            ELSE
            Bind(setPosition(W3, c, newPosition, lis), LAMBDA W4 :
            Return(W4, NoPos)))))

\* A faulty moveRelative: MOVE_FORWARD is dispatched after the move.
moveRelative_notifiesLast(W, c, numRowsToMove, lis) ==
    LET rowCount == getCount(W)
        target == RelativeTarget(W.cur[c].position_, rowCount, numRowsToMove)
    IN  IF target = <<>> THEN Throw(W, "IllegalMove")
        ELSE
        LET newPosition == Clamp(target[1], rowCount)
        IN  Bind(assertValidPosition(W, c, newPosition), LAMBDA W1 :
            Bind(maybeDiscard(W1, c, newPosition, lis), LAMBDA W2 :
            Bind(setPosition(W2, c, newPosition, lis), LAMBDA W3 :
            Bind(dispatchEvent(W3,
                    Event(c, "MOVE_FORWARD", NoPos, newPosition,
                          numRowsToMove, <<>>)), LAMBDA W4 :
            Return(W4, NoPos)))))

\* Cursor.moveRelative
moveRelative(W, c, numRowsToMove, lis) ==
    LET rowCount == getCount(W)
        target == RelativeTarget(W.cur[c].position_, rowCount, numRowsToMove)
    IN  IF target = <<>> THEN Throw(W, "IllegalMove")
        ELSE
        LET newPosition == Clamp(target[1], rowCount)
        IN  Bind(assertValidPosition(W, c, newPosition), LAMBDA W1 :
            Bind(maybeDiscard(W1, c, newPosition, lis), LAMBDA W2 :
            Bind(dispatchEvent(W2,
                    Event(c, "MOVE_FORWARD", NoPos, newPosition,
                          numRowsToMove, <<>>)), LAMBDA W3 :
            Bind(setPosition(W3, c, newPosition, lis), LAMBDA W4 :
            Return(W4, NoPos)))))

\* A faulty moveFirst: no case for the empty Datasource, the target is
\* always row 0.
moveFirst_alwaysRowZero(W, c, lis) ==
    LET newPosition == Idx(0)
    IN  setPosition(
            dispatchEvent(W,
                Event(c, "MOVE_FIRST", NoPos, newPosition, 0, <<>>)),
            c, newPosition, lis)

\* Cursor.moveFirst
moveFirst(W, c, lis) ==
    LET rowCount == getCount(W)
        newPosition == IF rowCount = 0 THEN EOF ELSE Idx(0)
    IN  setPosition(
            dispatchEvent(W,
                Event(c, "MOVE_FIRST", NoPos, newPosition, 0, <<>>)),
            c, newPosition, lis)

\* Cursor.moveLast
moveLast(W, c, lis) ==
    LET rowCount == getCount(W)
        newPosition == Idx(rowCount - 1)
    IN  setPosition(
            dispatchEvent(W,
                Event(c, "MOVE_LAST", NoPos, newPosition, 0, <<>>)),
            c, newPosition, lis)

\* A faulty moveNew: CREATE_NEW is dispatched after the move, as
\* moveRelative does with MOVE_FORWARD.
moveNew_notifiesLast(W, c, lis) ==
    LET newPosition == NEW_
    IN  Bind(setPosition(W, c, newPosition, lis), LAMBDA W1 :
        dispatchEvent(W1,
            Event(c, "CREATE_NEW", NoPos, newPosition, 0, <<>>)))

\* Cursor.moveNew
moveNew(W, c, lis) ==
    LET newPosition == NEW_
    IN  setPosition(
            dispatchEvent(W,
                Event(c, "CREATE_NEW", NoPos, newPosition, 0, <<>>)),
            c, newPosition, lis)

\* this.currentRecordValues_[fieldName] = newValue: the property is set on
\* the object the field refers to, which shows in currentRecordAsLoaded_ as
\* well when the two fields refer to one object.
AssignField(W, c, fieldName, newValue) ==
    [W EXCEPT !.cur[c].currentRecordValues_ =
                  Ref(SetProp(Deref(@), fieldName, newValue)),
              !.cur[c].currentRecordAsLoaded_ =
                  IF W.cur[c].sameObject
                  THEN Ref(SetProp(Deref(@), fieldName, newValue))
                  ELSE @]

\* A faulty setFieldValue: the current and the loaded values are one object
\* (assigned instead of copied), so the edit shows in both.
setFieldValue_aliased(W, c, fieldName, newValue) ==
    Bind(assertCurrentRecord(W, c), LAMBDA W1 :
    Bind(assertValidField(W1, fieldName), LAMBDA W2 :
    dispatchEvent(
        [W2 EXCEPT !.cur[c].currentRecordValues_ =
                       Ref(SetProp(Deref(@), fieldName, newValue)),
                   !.cur[c].currentRecordAsLoaded_ =
                       Ref(SetProp(Deref(@), fieldName, newValue))],
        Event(c, "MODIFIED", getPosition(W2, c), NoPos, 0, <<>>))))

\* A faulty setFieldValue: the field name is checked before the current
\* record is, so an unknown name at BOF or EOF reports NoSuchField.
setFieldValue_checksFieldFirst(W, c, fieldName, newValue) ==
    Bind(assertValidField(W, fieldName), LAMBDA W1 :
    Bind(assertCurrentRecord(W1, c), LAMBDA W2 :
    dispatchEvent(AssignField(W2, c, fieldName, newValue),
        Event(c, "MODIFIED", getPosition(W2, c), NoPos, 0, <<>>))))

\* A faulty setFieldValue: the edit is made on the row of the Datasource
\* as well, as if Datasource.get had handed out the row and not a copy.
setFieldValue_writesThrough(W, c, fieldName, newValue) ==
    Bind(assertCurrentRecord(W, c), LAMBDA W1 :
    Bind(assertValidField(W1, fieldName), LAMBDA W2 :
    Bind(AssignField(W2, c, fieldName, newValue), LAMBDA W3 :
    dispatchEvent(
        IF /\ IsInt(W3.cur[c].position_)
           /\ 0 <= W3.cur[c].position_.idx
           /\ W3.cur[c].position_.idx < getCount(W3)
        THEN [W3 EXCEPT !.data_[W3.cur[c].position_.idx + 1] =
                            SetProp(@, fieldName, newValue)]
        ELSE W3,
        Event(c, "MODIFIED", getPosition(W2, c), NoPos, 0, <<>>)))))

\* Cursor.setFieldValue
setFieldValue(W, c, fieldName, newValue) ==
    Bind(assertCurrentRecord(W, c), LAMBDA W1 :
    Bind(assertValidField(W1, fieldName), LAMBDA W2 :
    dispatchEvent(AssignField(W2, c, fieldName, newValue),
        Event(c, "MODIFIED", getPosition(W2, c), NoPos, 0, <<>>))))

\* A faulty catch block: the row is replaced before the answer of the
\* BEFORE_OVERWRITE listeners is looked at.
saveOverwrite_writesFirst(W, c, opt_attemptedPosition, lis) ==
    IF W.exc # "ConcurrentModification" THEN W
    ELSE
    Bind(dispatchEvent([W EXCEPT !.exc = "none", !.obj = Null],
            Event(c, "BEFORE_OVERWRITE", getPosition(W, c),
                  opt_attemptedPosition, 0, <<>>)), LAMBDA W1 :
    Bind(replace(W1, W1.cur[c].position_.idx,
                 Deref(W1.cur[c].currentRecordValues_)), LAMBDA W2 :
    LET cancelled == ~dispatchResult(lis, "BEFORE_OVERWRITE")
    IN  IF cancelled THEN Throw(W2, "OverwriteBlocked")
        ELSE dispatchEvent(W2,
                Event(c, "OVERWRITE", getPosition(W2, c), NoPos, 0, <<>>))))

\* A faulty catch block: the row is overwritten with the values as loaded
\* instead of the current ones.
saveOverwrite_writesLoaded(W, c, opt_attemptedPosition, lis) ==
    IF W.exc # "ConcurrentModification" THEN W
    ELSE
    Bind(dispatchEvent([W EXCEPT !.exc = "none", !.obj = Null],
            Event(c, "BEFORE_OVERWRITE", getPosition(W, c),
                  opt_attemptedPosition, 0, <<>>)), LAMBDA W1 :
    LET cancelled == ~dispatchResult(lis, "BEFORE_OVERWRITE")
    IN  IF cancelled THEN Throw(W1, "OverwriteBlocked")
        ELSE
        Bind(replace(W1, W1.cur[c].position_.idx,
                     Deref(W1.cur[c].currentRecordAsLoaded_)), LAMBDA W2 :
        dispatchEvent(W2,
            Event(c, "OVERWRITE", getPosition(W2, c), NoPos, 0, <<>>))))

\* The catch block of Cursor.save.  W is the world as atomicReplace left
\* it; the block is entered only when ConcurrentModification was thrown,
\* and every other outcome passes through.
saveOverwrite(W, c, opt_attemptedPosition, lis) ==
    IF W.exc # "ConcurrentModification" THEN W
    ELSE
    Bind(dispatchEvent([W EXCEPT !.exc = "none", !.obj = Null],
            Event(c, "BEFORE_OVERWRITE", getPosition(W, c),
                  opt_attemptedPosition, 0, <<>>)), LAMBDA W1 :
    LET cancelled == ~dispatchResult(lis, "BEFORE_OVERWRITE")
    IN  IF cancelled THEN Throw(W1, "OverwriteBlocked")
        ELSE
        Bind(replace(W1, W1.cur[c].position_.idx,
                     Deref(W1.cur[c].currentRecordValues_)), LAMBDA W2 :
        dispatchEvent(W2,
            Event(c, "OVERWRITE", getPosition(W2, c), NoPos, 0, <<>>))))

\* The branch of Cursor.save that writes to the Datasource; W.ret of the
\* result is newPosition.
saveWrite(W, c, opt_forceOverwrite, opt_attemptedPosition, lis) ==
    LET position == W.cur[c].position_
        current == Deref(W.cur[c].currentRecordValues_)
        loaded == Deref(W.cur[c].currentRecordAsLoaded_)
    IN  IF position = NEW_ THEN add(W, current)
        ELSE IF opt_forceOverwrite
        THEN Return(replace(W, position.idx, current), position)
        ELSE Return(
                saveOverwrite(
                    atomicReplace(W, position.idx, loaded, current),
                    c, opt_attemptedPosition, lis),
                position)

\* A faulty save: the record is not reloaded after it was written.
save_noReload(W, c, opt_suppressMoveToEvent, opt_forceOverwrite, opt_attemptedPosition, lis) ==
    Bind(assertCurrentRecord(W, c), LAMBDA W1 :
    Bind(saveWrite(W1, c, opt_forceOverwrite, opt_attemptedPosition, lis),
         LAMBDA W2 :
    Bind(dispatchEvent(W2,
            Event(c, "SAVE", W2.ret, NoPos, 0, <<>>)), LAMBDA W4 :
    Bind(IF W2.ret # W4.cur[c].position_ /\ ~opt_suppressMoveToEvent
         THEN moveInternal(W4, c, W2.ret)
         ELSE W4, LAMBDA W5 :
    Return(W5, W2.ret)))))

\* Cursor.save
save(W, c, opt_suppressMoveToEvent, opt_forceOverwrite, opt_attemptedPosition, lis) ==
    Bind(assertCurrentRecord(W, c), LAMBDA W1 :
    Bind(saveWrite(W1, c, opt_forceOverwrite, opt_attemptedPosition, lis),
         LAMBDA W2 :
    Bind(reloadRecord(W2, c), LAMBDA W3 :
    Bind(dispatchEvent(W3,
            Event(c, "SAVE", W2.ret, NoPos, 0, <<>>)), LAMBDA W4 :
    Bind(IF W2.ret # W4.cur[c].position_ /\ ~opt_suppressMoveToEvent
         THEN moveInternal(W4, c, W2.ret)
         ELSE W4, LAMBDA W5 :
    Return(W5, W2.ret))))))

(* --------------------------- the state machine ------------------------- *)

VARIABLES
    data_,      \* SimpleDatasource.data_: the rows
    cursors,    \* the fields of each Cursor bound to the Datasource
    log,        \* the notifications dispatched by the last call, in order
    seen,       \* what the listeners of each of these notifications found
    visited,    \* the positions a scan of the rows has been at, in order
    last,       \* the last call: method, receiver, arguments and outcome
    pre         \* the rows and the Cursors as the last call found them

vars == <<data_, cursors, log, seen, visited, last, pre>>

\* Records handed to the Datasource by its other users; the second one
\* omits a column.
InputRecords ==
    { [id |-> "n1", name |-> "s1"],
      [name |-> "n1"] }

\* The rows the Datasource is constructed with; the two names of the
\* second set are loosely unequal.
InitialData ==
    { <<>>,
      << [id |-> "n1", name |-> "n1"] >>,
      << [id |-> "n1", name |-> "n1"], [id |-> "n1", name |-> "n2"] >> }

RowIndexes == -1 .. MaxRows
Targets == {BOF, EOF, NEW_} \cup {Idx(i) : i \in RowIndexes}
Deltas == -MaxRows .. MaxRows
Hints == {NoPos, Idx(0)}
\* The setFieldValue calls made: every value for the column 'name', and a
\* field that is no column.
FieldInputs ==
    {<<"name", v>> : v \in Values} \cup {<<"foo", "n1">>}
NoListeners == [allowDiscard |-> TRUE, allowOverwrite |-> TRUE, others |-> TRUE]

\* A row may be added: the Datasource is below its bound, and so is every
\* integer position (a position left beyond the rows by remove is pushed
\* up by every insert below it, without limit).
CanGrow ==
    /\ Len(data_) < MaxRows
    /\ \A c \in Cursors :
          IsInt(cursors[c].position_) => cursors[c].position_.idx < MaxRows

\* The Cursor as its constructor leaves it.
NewCursor ==
    [position_ |-> BOF, currentRecordValues_ |-> Null,
     currentRecordAsLoaded_ |-> Null, sameObject |-> FALSE]

\* A call that has not run yet: the method, its receiver (a Cursor, or "ds"
\* for the Datasource) and its arguments; an argument the method does not
\* take stays as it is here.  pos is a position argument, idx a row index.
Call(op, c) ==
    [op |-> op, c |-> c, exc |-> "none", ret |-> NoPos, obj |-> Null,
     pos |-> NoPos, idx |-> 0, num |-> 0, field |-> "", value |-> Undef,
     rec |-> Null, exp |-> Null, suppress |-> FALSE, force |-> FALSE,
     lis |-> NoListeners]

\* No call is under observation: the next one may start.
NoCall == Call("none", "ds")

\* The caller is between two calls (listeners run inside the call that
\* dispatches to them, so calls do not overlap).
Idle == last = NoCall

\* The world a call starts in.
World ==
    [data_ |-> data_, cur |-> cursors, log |-> <<>>, seen |-> <<>>,
     exc |-> "none", ret |-> NoPos, obj |-> Null]

\* The state a call leaves behind, whether it returned or threw.
Outcome(W, call) ==
    /\ data_' = W.data_
    /\ cursors' = W.cur
    /\ log' = W.log
    /\ seen' = W.seen
    /\ last' = [call EXCEPT !.exc = W.exc, !.obj = W.obj,
                           !.ret = IF Thrown(W) THEN NoPos ELSE W.ret]
    /\ pre' = [data_ |-> data_, cursors |-> cursors]

\* A call that is no step of a scan.
Finish(W, call) ==
    /\ Outcome(W, call)
    /\ visited' = visited

\* The caller has seen the outcome of the call; log, last and pre describe
\* one call only and are cleared before the next one starts.
Observe ==
    /\ last # NoCall
    /\ log' = <<>>
    /\ seen' = <<>>
    /\ last' = NoCall
    /\ pre' = [data_ |-> data_, cursors |-> cursors]
    /\ UNCHANGED <<data_, cursors, visited>>

Init ==
    /\ data_ \in InitialData
    /\ cursors = [c \in Cursors |-> NewCursor]
    /\ log = <<>>
    /\ seen = <<>>
    /\ visited = <<>>
    /\ last = Call("construct", "c1")
    /\ pre = [data_ |-> data_, cursors |-> cursors]

SetPosition(c) ==
    /\ Idle
    /\ \E t \in Targets, lis \in Listeners :
        Finish(setPosition(World, c, t, lis),
               [Call("setPosition", c) EXCEPT !.pos = t, !.lis = lis])

MoveRelative(c) ==
    /\ Idle
    /\ \E d \in Deltas, lis \in Listeners :
        Finish(moveRelative(World, c, d, lis),
               [Call("moveRelative", c) EXCEPT !.num = d, !.lis = lis])

MoveFirst(c) ==
    /\ Idle
    /\ \E lis \in Listeners :
        Finish(moveFirst(World, c, lis),
               [Call("moveFirst", c) EXCEPT !.lis = lis])

MoveLast(c) ==
    /\ Idle
    /\ \E lis \in Listeners :
        Finish(moveLast(World, c, lis),
               [Call("moveLast", c) EXCEPT !.lis = lis])

MoveNew(c) ==
    /\ Idle
    /\ \E lis \in Listeners :
        Finish(moveNew(World, c, lis),
               [Call("moveNew", c) EXCEPT !.lis = lis])

SetFieldValue(c) ==
    /\ Idle
    /\ \E fv \in FieldInputs :
        Finish(setFieldValue(World, c, fv[1], fv[2]),
               [Call("setFieldValue", c) EXCEPT
                   !.field = fv[1], !.value = fv[2]])

MaybeDiscard(c) ==
    /\ Idle
    /\ \E h \in Hints, lis \in Listeners :
        Finish(maybeDiscard(World, c, h, lis),
               [Call("maybeDiscard", c) EXCEPT !.pos = h, !.lis = lis])

Discard(c) ==
    /\ Idle
    /\ \E lis \in Listeners :
        Finish(discard(World, c, NoPos, lis),
               [Call("discard", c) EXCEPT !.lis = lis])

\* save at NEW appends a row: it is taken only while the Datasource may grow.
Save(c) ==
    /\ Idle
    /\ \E suppress \in BOOLEAN, force \in BOOLEAN, h \in Hints, lis \in Listeners :
        /\ cursors[c].position_ = NEW_ => CanGrow
        /\ Finish(save(World, c, suppress, force, h, lis),
                  [Call("save", c) EXCEPT !.suppress = suppress,
                      !.force = force, !.pos = h, !.lis = lis])

GetLoadedValues(c) ==
    /\ Idle
    /\ Finish(getLoadedValues(World, c), Call("getLoadedValues", c))

GetCurrentValues(c) ==
    /\ Idle
    /\ Finish(getCurrentValues(World, c), Call("getCurrentValues", c))

DsGet ==
    /\ Idle
    /\ \E i \in RowIndexes :
        Finish(get(World, i), [Call("get", "ds") EXCEPT !.idx = i])

DsInsert ==
    /\ Idle
    /\ \E i \in RowIndexes, r \in InputRecords :
        /\ CanGrow
        /\ Finish(insert(World, i, r),
                  [Call("insert", "ds") EXCEPT !.idx = i, !.rec = Ref(r)])

DsAdd ==
    /\ Idle
    /\ \E r \in InputRecords :
        /\ CanGrow
        /\ Finish(add(World, r), [Call("add", "ds") EXCEPT !.rec = Ref(r)])

DsReplace ==
    /\ Idle
    /\ \E i \in RowIndexes, r \in InputRecords :
        Finish(replace(World, i, r),
               [Call("replace", "ds") EXCEPT !.idx = i, !.rec = Ref(r)])

DsRemove ==
    /\ Idle
    /\ \E i \in RowIndexes :
        Finish(remove(World, i), [Call("remove", "ds") EXCEPT !.idx = i])

DsAtomicReplace ==
    /\ Idle
    /\ \E i \in RowIndexes, e \in InputRecords, r \in InputRecords :
        Finish(atomicReplace(World, i, e, r),
               [Call("atomicReplace", "ds") EXCEPT !.idx = i,
                   !.exp = Ref(e), !.rec = Ref(r)])

\* One Cursor in use; the Datasource is also written by its other users.
Next ==
    \/ Observe
    \/ SetPosition("c1")
    \/ MoveRelative("c1")
    \/ MoveFirst("c1")
    \/ MoveLast("c1")
    \/ MoveNew("c1")
    \/ SetFieldValue("c1")
    \/ MaybeDiscard("c1")
    \/ Discard("c1")
    \/ Save("c1")
    \/ GetLoadedValues("c1")
    \/ GetCurrentValues("c1")
    \/ DsGet
    \/ DsInsert
    \/ DsAdd
    \/ DsReplace
    \/ DsRemove
    \/ DsAtomicReplace

Spec == Init /\ [][Next]_vars

\* The Datasource held fixed: only the Cursor is used (its moves, and the
\* edits that make its record dirty).
NextMoves ==
    \/ Observe
    \/ SetPosition("c1")
    \/ MoveRelative("c1")
    \/ MoveFirst("c1")
    \/ MoveLast("c1")
    \/ MoveNew("c1")
    \/ SetFieldValue("c1")

SpecMoves == Init /\ [][NextMoves]_vars

\* Two Cursors bound to one Datasource, their calls interleaved.
NextTwo ==
    \/ Observe
    \/ \E c \in Cursors : SetPosition(c)
    \/ \E c \in Cursors : SetFieldValue(c)
    \/ \E c \in Cursors : Save(c)

SpecTwo == Init /\ [][NextTwo]_vars

\* A scan of the rows, as the class comment describes it: from BOF,
\* moveRelative(1) again and again until the Cursor is at EOF, then once
\* more; nobody else uses the Cursor or writes to the Datasource meanwhile.
ScanRows == {[id |-> "n1", name |-> "n1"], [id |-> "n1", name |-> "s1"]}
ScanData == UNION {[1 .. n -> ScanRows] : n \in 0 .. MaxScanRows}

InitScan ==
    /\ data_ \in ScanData
    /\ cursors = [c \in Cursors |-> NewCursor]
    /\ log = <<>>
    /\ seen = <<>>
    /\ visited = <<>>
    /\ last = Call("construct", "c1")
    /\ pre = [data_ |-> data_, cursors |-> cursors]

\* One call of the loop; the position it ends at is noted.
ScanOutcome(W) ==
    /\ Outcome(W, [Call("moveRelative", "c1") EXCEPT !.num = 1])
    /\ visited' = Append(visited, W.cur["c1"].position_)

ScanStep ==
    /\ last.exc = "none"
    /\ cursors["c1"].position_ # EOF
    /\ ScanOutcome(moveRelative(World, "c1", 1, NoListeners))

\* The loop has ended at EOF: one further moveRelative(1).
ScanPastEnd ==
    /\ last.exc = "none"
    /\ cursors["c1"].position_ = EOF
    /\ Finish(moveRelative(World, "c1", 1, NoListeners),
              [Call("moveRelative", "c1") EXCEPT !.num = 1])

NextScan ==
    \/ ScanStep
    \/ ScanPastEnd

SpecScan == InitScan /\ [][NextScan]_vars

(* ------------------------- vocabulary of the claims -------------------- *)

\* position is a sentinel or the index of a row.
ValidPosition(position, rows) ==
    \/ position \in {BOF, EOF, NEW_}
    \/ (IsInt(position) /\ 0 <= position.idx /\ position.idx < Len(rows))

\* The notifications of the last call dispatched by one source, in order.
EventsOf(src) == SelectSeq(log, LAMBDA e : e.src = src)
TypesOf(events) == [i \in 1 .. Len(events) |-> events[i].type]
Dispatched(src, type) ==
    \E i \in 1 .. Len(log) : log[i].src = src /\ log[i].type = type

\* Two records differ in a field: some key of either reads loosely unequal
\* values in the two (a key a record does not own reads undefined).
FieldsDiffer(a, b) ==
    \E k \in (DOMAIN a) \cup (DOMAIN b) : ~LooseEq(Prop(a, k), Prop(b, k))

\* The last call was save() without forceOverwrite by a Cursor that stood
\* on a row differing from its loadedValues.
SaveFoundConflict ==
    /\ last.op = "save"
    /\ ~last.force
    /\ ValidPosition(pre.cursors[last.c].position_, pre.data_)
    /\ IsInt(pre.cursors[last.c].position_)
    /\ FieldsDiffer(Deref(pre.cursors[last.c].currentRecordAsLoaded_),
                    pre.data_[pre.cursors[last.c].position_.idx + 1])

\* The last call was save() by a Cursor positioned at NEW.
SaveFromNew == last.op = "save" /\ pre.cursors[last.c].position_ = NEW_

(* -------------------------------- claims ------------------------------- *)

\* C1: with the Datasource held fixed, after any sequence of setPosition,
\* moveRelative, moveFirst, moveLast and moveNew calls, returned or thrown,
\* the position is BOF, EOF, NEW or an integer i with 0 <= i < rowCount.
C1_PositionInRange ==
    ValidPosition(cursors["c1"].position_, data_)

\* A move back from EOF that landed on the last row, and a move that threw.
C1_Witness ==
    /\ last.op = "moveRelative"
    /\ last.exc = "none"
    /\ pre.cursors["c1"].position_ = EOF
    /\ cursors["c1"].position_ = Idx(Len(data_) - 1)

\* C2: Datasource.insert(i, record) at i <= p, while a Cursor has unsaved
\* edits at integer position p, does not discard the edits: the current
\* values are the edited ones and the Cursor is still dirty.
C2_InsertKeepsEdits ==
    ( /\ last.op = "insert"
      /\ last.exc = "none"
      /\ IsInt(pre.cursors["c1"].position_)
      /\ isDirty(pre.cursors["c1"])
      /\ 0 <= last.idx
      /\ last.idx <= pre.cursors["c1"].position_.idx )
    => /\ cursors["c1"].currentRecordValues_ =
              pre.cursors["c1"].currentRecordValues_
       /\ isDirty(cursors["c1"])

\* C3: insert(i, record) moves a Cursor at integer position p to p + 1 when
\* i <= p and leaves it at p when i > p; a Cursor at BOF, EOF or NEW keeps
\* its position for every insert index.
C3_InsertShiftsPosition ==
    ( /\ last.op = "insert"
      /\ 0 <= last.idx
      /\ last.idx <= Len(pre.data_) )
    => \A c \in Cursors :
          LET p == pre.cursors[c].position_
          IN  cursors[c].position_ =
                IF IsInt(p) /\ last.idx <= p.idx THEN Idx(p.idx + 1) ELSE p

\* An insert below a Cursor that stood on a row.
C3_Witness ==
    /\ last.op = "insert"
    /\ last.exc = "none"
    /\ IsInt(pre.cursors["c1"].position_)
    /\ last.idx <= pre.cursors["c1"].position_.idx
    /\ cursors["c1"].position_ = Idx(pre.cursors["c1"].position_.idx + 1)

\* C4: when the record is dirty and a BEFORE_DISCARD listener cancels,
\* maybeDiscard, setPosition and moveRelative throw DiscardBlocked and leave
\* the position, currentValues, loadedValues and every row as they were.
\* The listener is asked on every such call except one whose request is
\* itself illegal: that one throws IllegalMove before anything is
\* dispatched, and changes nothing either.
C4_DiscardBlockedChangesNothing ==
    ( /\ last.op \in {"maybeDiscard", "setPosition", "moveRelative"}
      /\ isDirty(pre.cursors[last.c])
      /\ ~last.lis.allowDiscard )
    => /\ cursors = pre.cursors
       /\ data_ = pre.data_
       /\ IF Dispatched(last.c, "BEFORE_DISCARD")
          THEN /\ last.exc = "DiscardBlocked"
               /\ TypesOf(log) = <<"BEFORE_DISCARD">>
          ELSE /\ last.exc = "IllegalMove"
               /\ log = <<>>

\* A blocked moveRelative away from an edited row.
C4_Witness ==
    /\ last.op = "moveRelative"
    /\ last.exc = "DiscardBlocked"
    /\ IsInt(cursors["c1"].position_)
    /\ isDirty(cursors["c1"])

\* C5: for two Cursors on one Datasource, under any interleaving of their
\* setPosition, setFieldValue and save calls: a save() without
\* forceOverwrite at a row that differs in some field (loose equality) from
\* the saving Cursor's loadedValues writes that row only if BEFORE_OVERWRITE
\* was dispatched on that Cursor during the call and no listener cancelled.
C5_NoSilentOverwrite ==
    ( /\ SaveFoundConflict
      /\ \/ Dispatched("ds", "ROWS_UPDATE")
         \/ data_ # pre.data_ )
    => /\ Dispatched(last.c, "BEFORE_OVERWRITE")
       /\ last.lis.allowOverwrite

\* The second Cursor overwrote, with permission, the row the first one had
\* saved under it.
C5_Witness ==
    /\ SaveFoundConflict
    /\ last.c = "c2"
    /\ cursors["c1"].position_ = cursors["c2"].position_
    /\ ~isDirty(cursors["c1"])
    /\ Dispatched("ds", "ROWS_UPDATE")
    /\ data_ # pre.data_

\* C6: when save() without forceOverwrite finds the row differing from
\* loadedValues and a BEFORE_OVERWRITE listener cancels, it throws
\* OverwriteBlocked, the Datasource is unmodified, neither OVERWRITE nor
\* SAVE is dispatched and the Cursor is unchanged, so that a repeated save()
\* finds the same conflict and dispatches BEFORE_OVERWRITE again.
C6_OverwriteBlockedChangesNothing ==
    SaveFoundConflict
    => /\ EventsOf(last.c) # <<>>
       /\ EventsOf(last.c)[1].type = "BEFORE_OVERWRITE"
       /\ ~last.lis.allowOverwrite
          => /\ last.exc = "OverwriteBlocked"
             /\ data_ = pre.data_
             /\ cursors = pre.cursors
             /\ TypesOf(log) = <<"BEFORE_OVERWRITE">>
             /\ FieldsDiffer(
                  Deref(cursors[last.c].currentRecordAsLoaded_),
                  data_[cursors[last.c].position_.idx + 1])

\* A save refused by the listener.
C6_Witness ==
    /\ SaveFoundConflict
    /\ ~last.lis.allowOverwrite
    /\ last.exc = "OverwriteBlocked"
    /\ isDirty(cursors[last.c])

\* C7: when save() without forceOverwrite finds the row differing from
\* loadedValues and no listener cancels, the Cursor dispatches
\* BEFORE_OVERWRITE, OVERWRITE, SAVE in this order, the row at the position
\* becomes the Cursor's currentValues, and save returns the unchanged
\* position.
C7_OverwriteAllowed ==
    (SaveFoundConflict /\ last.lis.allowOverwrite)
    => LET p == pre.cursors[last.c].position_
       IN  /\ last.exc = "none"
           /\ TypesOf(EventsOf(last.c)) =
                 <<"BEFORE_OVERWRITE", "OVERWRITE", "SAVE">>
           /\ TypesOf(log) =
                 <<"BEFORE_OVERWRITE", "ROWS_UPDATE", "OVERWRITE", "SAVE">>
           /\ data_[p.idx + 1] = Deref(pre.cursors[last.c].currentRecordValues_)
           /\ data_[p.idx + 1] = Deref(cursors[last.c].currentRecordValues_)
           /\ last.ret = p
           /\ cursors[last.c].position_ = p

\* An overwrite that changed the row.
C7_Witness ==
    /\ SaveFoundConflict
    /\ last.lis.allowOverwrite
    /\ last.exc = "none"
    /\ data_ # pre.data_

\* C8: for a valid index, atomicReplace(index, expected, next) with expected
\* matching the actual row on every key of either (loose equality) leaves
\* the Datasource and its ROWS_UPDATE notification as replace(index, next)
\* does; with a mismatching key it throws ConcurrentModification carrying
\* the actual row, mutates nothing and notifies nobody.
C8_AtomicReplaceIsGuardedReplace ==
    ( /\ last.op = "atomicReplace"
      /\ 0 <= last.idx
      /\ last.idx < Len(pre.data_) )
    => LET actual == pre.data_[last.idx + 1]
           W0 == [data_ |-> pre.data_, cur |-> pre.cursors, log |-> <<>>,
                  seen |-> <<>>, exc |-> "none", ret |-> NoPos,
                  obj |-> Null]
           R == replace(W0, last.idx, Deref(last.rec))
       IN  IF FieldsDiffer(Deref(last.exp), actual)
           THEN /\ last.exc = "ConcurrentModification"
                /\ last.obj = Ref(actual)
                /\ data_ = pre.data_
                /\ cursors = pre.cursors
                /\ log = <<>>
           ELSE /\ last.exc = "none"
                /\ data_ = R.data_
                /\ cursors = R.cur
                /\ log = R.log
                /\ data_[last.idx + 1] = Deref(last.rec)
                /\ TypesOf(log) = <<"ROWS_UPDATE">>
                /\ log[1].rows = <<last.idx>>

\* An atomicReplace that went through although expected and the row are
\* different objects (they agree only loosely), and changed the row.
C8_Witness ==
    /\ last.op = "atomicReplace"
    /\ last.exc = "none"
    /\ Deref(last.exp) # pre.data_[last.idx + 1]
    /\ data_ # pre.data_

\* C9: save() at NEW appends the Cursor's current values as the last row
\* (the row count grows by exactly one) and returns the new row's index,
\* the old row count; without suppressMoveTo the Cursor ends on that index
\* and every field of its current values reads as saved; with
\* suppressMoveTo the position stays NEW and getCurrentValues() is empty.
C9_SaveFromNew ==
    SaveFromNew
    => LET saved == Deref(pre.cursors[last.c].currentRecordValues_)
           index == Len(pre.data_)
       IN  /\ last.exc = "none"
           /\ Len(data_) = index + 1
           /\ data_ = Append(pre.data_, saved)
           /\ last.ret = Idx(index)
           /\ IF last.suppress
              THEN /\ cursors[last.c].position_ = NEW_
                   /\ cursors[last.c].currentRecordValues_ = Ref(EmptyObject)
              ELSE /\ cursors[last.c].position_ = Idx(index)
                   /\ \A k \in ColumnNames :
                        Prop(Deref(cursors[last.c].currentRecordValues_), k)
                           = Prop(saved, k)

\* A new record with an edited field saved, once with and once without
\* suppressMoveTo.
C9_Witness ==
    /\ SaveFromNew
    /\ isDirty(pre.cursors[last.c])
    /\ ~last.suppress
    /\ IsInt(cursors[last.c].position_)

\* C10: during save() from NEW, SAVE is dispatched before any MOVE_TO and
\* carries the index of the new row (the old row count); without
\* suppressMoveTo exactly one MOVE_TO follows, from NEW to that index; with
\* suppressMoveTo no MOVE_TO is dispatched.
C10_SaveThenMoveTo ==
    SaveFromNew
    => LET index == Idx(Len(pre.data_))
           saveEvent == Event(last.c, "SAVE", index, NoPos, 0, <<>>)
           moveEvent == Event(last.c, "MOVE_TO", NEW_, index, 0, <<>>)
       IN  EventsOf(last.c) =
              IF last.suppress THEN <<saveEvent>>
              ELSE <<saveEvent, moveEvent>>

\* A save() from NEW with the MOVE_TO suppressed.
C10_Witness ==
    /\ SaveFromNew
    /\ last.suppress
    /\ last.exc = "none"
    /\ isDirty(pre.cursors[last.c])

\* The symmetric per-key diff of two records: some key is owned by only
\* one of them, or by both with loosely unequal values.
KeyDiff(a, b) ==
    \E k \in (DOMAIN a) \cup (DOMAIN b) :
        \/ k \notin DOMAIN a
        \/ k \notin DOMAIN b
        \/ ~LooseEq(a[k], b[k])

\* C11: in every reachable state isDirty() is true iff a record is loaded
\* and currentValues and loadedValues differ under the symmetric per-key
\* diff; at BOF and EOF no record is loaded and isDirty() is false.
C11_DirtyIsKeyDiff ==
    \A c \in Cursors :
        /\ isDirty(cursors[c]) <=>
              /\ ~IsNull(cursors[c].currentRecordValues_)
              /\ KeyDiff(Deref(cursors[c].currentRecordValues_),
                         Deref(cursors[c].currentRecordAsLoaded_))
        /\ cursors[c].position_ \in {BOF, EOF}
              => /\ IsNull(cursors[c].currentRecordValues_)
                 /\ ~isDirty(cursors[c])

\* A new record whose only edit set a field to undefined: dirty because the
\* key is owned by the current values alone.
C11_Witness ==
    /\ last.op = "setFieldValue"
    /\ last.value = Undef
    /\ last.exc = "none"
    /\ cursors["c1"].position_ = NEW_
    /\ isDirty(cursors["c1"])

\* C12: isDirty() is false right after a Cursor is constructed, right after
\* any discard() that returned, and right after any save() that returned
\* (from an integer position or from NEW, whatever its arguments).
C12_CleanAfterConstructDiscardSave ==
    /\ last.op = "construct" => \A c \in Cursors : ~isDirty(cursors[c])
    /\ (last.op \in {"discard", "save"} /\ last.exc = "none")
          => ~isDirty(cursors[last.c])

\* A discard() that returned after reverting the edits of a new record.
C12_Witness ==
    /\ last.op = "discard"
    /\ last.exc = "none"
    /\ isDirty(pre.cursors[last.c])
    /\ pre.cursors[last.c].position_ = NEW_
    /\ ~isDirty(cursors[last.c])

\* C13: on a current record (integer position or NEW), isDirty() is true
\* right after setFieldValue(name, value) with a column name and a value
\* loosely unequal to the loaded value of that field.
C13_EditMakesDirty ==
    ( /\ last.op = "setFieldValue"
      /\ last.field \in ColumnNames
      /\ pre.cursors[last.c].position_ \notin {BOF, EOF}
      /\ ~LooseEq(last.value,
                  Prop(Deref(pre.cursors[last.c].currentRecordAsLoaded_),
                       last.field)) )
    => /\ last.exc = "none"
       /\ isDirty(cursors[last.c])
       /\ Prop(Deref(cursors[last.c].currentRecordValues_), last.field)
             = last.value

\* The first edit of a row that was clean, replacing one defined value by
\* another.
C13_Witness ==
    /\ last.op = "setFieldValue"
    /\ last.exc = "none"
    /\ IsInt(pre.cursors[last.c].position_)
    /\ ~isDirty(pre.cursors[last.c])
    /\ last.value # Undef
    /\ Prop(Deref(pre.cursors[last.c].currentRecordAsLoaded_), last.field)
          # Undef
    /\ isDirty(cursors[last.c])

\* The current and the loaded values of a Cursor differ in no field but f:
\* the Cursor was not dirty before the field f was edited.
CleanButFor(cursor, f) ==
    /\ ~IsNull(cursor.currentRecordValues_)
    /\ LET a == Deref(cursor.currentRecordValues_)
           b == Deref(cursor.currentRecordAsLoaded_)
       IN  \A k \in ((DOMAIN a) \cup (DOMAIN b)) \ {f} :
              /\ k \in DOMAIN a
              /\ k \in DOMAIN b
              /\ LooseEq(a[k], b[k])

\* The last call was setFieldValue(name, getLoadedValues()[name]) on a
\* record of which only that field had been edited.
FieldWasReset ==
    /\ last.op = "setFieldValue"
    /\ last.field \in ColumnNames
    /\ pre.cursors[last.c].position_ \notin {BOF, EOF}
    /\ CleanButFor(pre.cursors[last.c], last.field)
    /\ last.value =
          Prop(Deref(pre.cursors[last.c].currentRecordAsLoaded_), last.field)

\* C14 as stated: on a current record, at an integer position or at NEW,
\* setting an edited field back to getLoadedValues()[name] leaves the
\* Cursor not dirty.
C14_AsStated ==
    FieldWasReset => ~isDirty(cursors[last.c])

\* C14, amended: when the loaded values own the field (they own every
\* column at an integer position whose row was loaded), setting the edited
\* field back to its loaded value leaves the Cursor not dirty; and a Cursor
\* that is not dirty dispatches no BEFORE_DISCARD in maybeDiscard,
\* setPosition or moveRelative, so that a blocking listener blocks nothing.
\* At NEW the loaded values are {}: the reset stores undefined under a key
\* the loaded values do not own, and the Cursor stays dirty.
C14_ResetFieldCleans ==
    /\ ( /\ FieldWasReset
         /\ hasOwnProperty(
               Deref(pre.cursors[last.c].currentRecordAsLoaded_), last.field) )
       => ~isDirty(cursors[last.c])
    /\ ( /\ FieldWasReset
         /\ pre.cursors[last.c].position_ = NEW_ )
       => isDirty(cursors[last.c])
    /\ ( /\ last.op \in {"maybeDiscard", "setPosition", "moveRelative"}
         /\ ~isDirty(pre.cursors[last.c]) )
       => /\ ~Dispatched(last.c, "BEFORE_DISCARD")
          /\ last.exc # "DiscardBlocked"

\* An edited name set back to the loaded one, on a row.
C14_Witness ==
    /\ FieldWasReset
    /\ IsInt(pre.cursors[last.c].position_)
    /\ isDirty(pre.cursors[last.c])
    /\ ~isDirty(cursors[last.c])

\* C15 as stated: for a Cursor that is not dirty and every integer
\* delta, moveRelative(delta) ends at the position of the reference: delta
\* 0 keeps the position; else base is -1 at BOF, rowCount at EOF or NEW
\* and the index otherwise, t = base + delta, and the end is BOF if t < 0,
\* EOF if t >= rowCount, else index t; delta < 0 at BOF and delta > 0 at
\* EOF or NEW throw IllegalMove.  From BOF, moveRelative(1) lands on index
\* 0, or on EOF when there is no row.
C15_MoveRelativeReference ==
    ( /\ last.op = "moveRelative"
      /\ ~isDirty(pre.cursors[last.c]) )
    => LET p == pre.cursors[last.c].position_
           rowCount == Len(pre.data_)
           delta == last.num
           base == IF p = BOF THEN -1
                   ELSE IF p \in {EOF, NEW_} THEN rowCount
                   ELSE p.idx
           t == base + delta
           ref == IF delta = 0 THEN <<p>>
                  ELSE IF \/ p = BOF /\ delta < 0
                          \/ p \in {EOF, NEW_} /\ delta > 0
                  THEN <<>>
                  ELSE IF t < 0 THEN <<BOF>>
                  ELSE IF t >= rowCount THEN <<EOF>>
                  ELSE <<Idx(t)>>
       IN  /\ IF ref = <<>>
              THEN /\ last.exc = "IllegalMove"
                   /\ cursors[last.c].position_ = p
              ELSE /\ last.exc = "none"
                   /\ cursors[last.c].position_ = ref[1]
           /\ (p = BOF /\ last.num = 1)
                => cursors[last.c].position_ =
                      IF Len(pre.data_) > 0 THEN Idx(0) ELSE EOF

\* C16 as stated: whenever moveRelative throws IllegalMove, no notification
\* of any type was dispatched during the call, and the position and the
\* current and loaded values of the Cursor are those before the call.
C16_IllegalMoveBeforeAnyEffect ==
    (last.op = "moveRelative" /\ last.exc = "IllegalMove")
    => /\ log = <<>>
       /\ cursors[last.c] = pre.cursors[last.c]

\* C17 as stated: moveRelative(0) and setPosition(getPosition()) on a dirty
\* record dispatch BEFORE_DISCARD; a cancelling listener makes the call
\* throw DiscardBlocked; otherwise the call returns normally, the edits are
\* reverted to the loaded values and the position is unchanged.
C17_StayRunsDiscardProtocol ==
    ( /\ \/ last.op = "moveRelative" /\ last.num = 0
         \/ last.op = "setPosition"
              /\ last.pos = pre.cursors[last.c].position_
      /\ isDirty(pre.cursors[last.c]) )
    => /\ Dispatched(last.c, "BEFORE_DISCARD")
       /\ IF ~last.lis.allowDiscard
          THEN last.exc = "DiscardBlocked"
          ELSE /\ last.exc = "none"
               /\ ~isDirty(cursors[last.c])
               /\ cursors[last.c].currentRecordValues_ =
                      pre.cursors[last.c].currentRecordAsLoaded_
               /\ cursors[last.c].position_ = pre.cursors[last.c].position_

\* C18: setPosition(t) with t an integer outside [0, rowCount) throws
\* IllegalMove from any state of the Cursor, a dirty record with a
\* cancelling BEFORE_DISCARD listener included: no notification is
\* dispatched, and the position and the unsaved edits are unchanged.
C18_OutOfRangeTargetThrowsFirst ==
    ( /\ last.op = "setPosition"
      /\ IsInt(last.pos)
      /\ (last.pos.idx < 0 \/ last.pos.idx >= Len(pre.data_)) )
    => /\ last.exc = "IllegalMove"
       /\ ~Dispatched(last.c, "BEFORE_DISCARD")
       /\ log = <<>>
       /\ cursors[last.c] = pre.cursors[last.c]
       /\ data_ = pre.data_

\* A dirty record, a listener that would cancel, and a target one past the
\* last row.
C18_Witness ==
    /\ last.op = "setPosition"
    /\ last.pos = Idx(Len(pre.data_))
    /\ Len(pre.data_) > 0
    /\ IsInt(pre.cursors[last.c].position_)
    /\ isDirty(pre.cursors[last.c])
    /\ ~last.lis.allowDiscard
    /\ last.exc = "IllegalMove"
    /\ isDirty(cursors[last.c])

\* The position a Cursor held when the i-th notification of the last call
\* was about to be prepared: the one the listeners of the notification
\* before it found, or the one the call started with.  (position_ is
\* assigned in moveInternal only, which dispatches MOVE_TO each time.)
PositionBefore(i, c) ==
    IF i = 1 THEN pre.cursors[c].position_
    ELSE seen[i - 1].cur[c].position_

\* The record a Cursor holds for a position, given the rows: the row
\* projected on the columns at an integer, {} at NEW, none at BOF and EOF.
RecordAt(position, rows) ==
    IF position \in {BOF, EOF} THEN Null
    ELSE IF position = NEW_ THEN Ref(EmptyObject)
    ELSE Ref(ProjectOnColumns(rows[position.idx + 1]))

\* C19: at every dispatch of a MOVE_TO notification the Cursor is already
\* at the new position with the new record loaded: its position is the
\* event's newPosition, the event's position is the position held
\* immediately before the move, and the current and loaded values are those
\* of the new position (the row of the Datasource at an integer, empty at
\* NEW, unset at BOF and EOF).
C19_MoveToAfterTheMove ==
    \A i \in 1 .. Len(log) :
        log[i].type = "MOVE_TO"
        => LET e == log[i]
               found == seen[i].cur[e.src]
           IN  /\ found.position_ = e.newPosition
               /\ e.position = PositionBefore(i, e.src)
               /\ IsInt(e.newPosition)
                    => /\ 0 <= e.newPosition.idx
                       /\ e.newPosition.idx < Len(seen[i].data_)
               /\ found.currentRecordValues_ =
                      RecordAt(e.newPosition, seen[i].data_)
               /\ found.currentRecordAsLoaded_ =
                      RecordAt(e.newPosition, seen[i].data_)

\* A save from NEW: the row is appended and the Cursor moves onto it, and
\* the listeners of MOVE_TO find the saved row loaded.
C19_Witness ==
    /\ last.op = "save"
    /\ pre.cursors[last.c].position_ = NEW_
    /\ Len(log) >= 2
    /\ log[Len(log)].type = "MOVE_TO"
    /\ log[Len(log)].position = NEW_
    /\ log[Len(log)].newPosition = Idx(Len(pre.data_))
    /\ seen[Len(log)].cur[last.c].position_ = Idx(Len(pre.data_))
    /\ seen[Len(log)].cur[last.c].currentRecordValues_ # Ref(EmptyObject)
    /\ Len(seen[Len(log)].data_) = Len(pre.data_) + 1

\* C20: in every reachable state, the calls other parties make to the
\* Datasource (insert, add, replace, remove) included, a Cursor whose
\* position is an integer has 0 <= position < getRowCount().
C20_IntegerPositionInRange ==
    \A c \in Cursors :
        IsInt(cursors[c].position_)
        => /\ 0 <= cursors[c].position_.idx
           /\ cursors[c].position_.idx < Len(data_)

\* C21: at BOF or EOF, setFieldValue (whether or not the name is a column),
\* getLoadedValues, getCurrentValues and save throw NoCurrentRecord, change
\* neither the Cursor nor the Datasource and dispatch nothing; on a current
\* record, setFieldValue with a name that is no column throws NoSuchField,
\* leaves the current values as they were and dispatches no MODIFIED.
C21_NoRecordNoField ==
    /\ ( /\ last.op \in {"setFieldValue", "getLoadedValues",
                         "getCurrentValues", "save"}
         /\ pre.cursors[last.c].position_ \in {BOF, EOF} )
       => /\ last.exc = "NoCurrentRecord"
          /\ cursors = pre.cursors
          /\ data_ = pre.data_
          /\ log = <<>>
    /\ ( /\ last.op = "setFieldValue"
         /\ pre.cursors[last.c].position_ \notin {BOF, EOF}
         /\ \A i \in 1 .. Len(columns_) : columns_[i] # last.field )
       => /\ last.exc = "NoSuchField"
          /\ cursors[last.c].currentRecordValues_ =
                pre.cursors[last.c].currentRecordValues_
          /\ ~Dispatched(last.c, "MODIFIED")

\* setFieldValue with an unknown name at EOF: the missing record is
\* reported, not the missing field.
C21_Witness ==
    /\ last.op = "setFieldValue"
    /\ last.field = "foo"
    /\ pre.cursors[last.c].position_ = EOF
    /\ last.exc = "NoCurrentRecord"

\* C22: discard() on a dirty Cursor at NEW abandons the record and moves
\* the Cursor to index rowCount - 1: the call returns with the Cursor on
\* the last row, not dirty, having dispatched DISCARD, then MOVE_TO (from
\* NEW to rowCount - 1), then MODIFIED, and the Datasource is unchanged.
C22_DiscardAtNewGoesToLastRow ==
    ( /\ last.op = "discard"
      /\ pre.cursors[last.c].position_ = NEW_
      /\ isDirty(pre.cursors[last.c]) )
    => LET lastRow == Idx(Len(pre.data_) - 1)
       IN  /\ last.exc = "none"
           /\ cursors[last.c].position_ = lastRow
           /\ ~isDirty(cursors[last.c])
           /\ TypesOf(EventsOf(last.c)) = <<"DISCARD", "MOVE_TO", "MODIFIED">>
           /\ EventsOf(last.c)[2].position = NEW_
           /\ EventsOf(last.c)[2].newPosition = lastRow
           /\ data_ = pre.data_

\* C23: discard() on a dirty record at an integer position sets the
\* current values to (a copy of) the loaded values, leaves the loaded
\* values and the position unchanged, dispatches DISCARD then MODIFIED and
\* never BEFORE_DISCARD, whatever a BEFORE_DISCARD listener would answer;
\* discard() on a record that is not dirty changes nothing and dispatches
\* nothing.
C23_DiscardAtInteger ==
    /\ ( /\ last.op = "discard"
         /\ IsInt(pre.cursors[last.c].position_)
         /\ isDirty(pre.cursors[last.c]) )
       => /\ last.exc = "none"
          /\ cursors[last.c].currentRecordValues_ =
                pre.cursors[last.c].currentRecordAsLoaded_
          /\ cursors[last.c].currentRecordAsLoaded_ =
                pre.cursors[last.c].currentRecordAsLoaded_
          /\ cursors[last.c].position_ = pre.cursors[last.c].position_
          /\ TypesOf(log) = <<"DISCARD", "MODIFIED">>
          /\ \A i \in 1 .. Len(log) : log[i].src = last.c
          /\ data_ = pre.data_
    /\ ( /\ last.op = "discard"
         /\ pre.cursors[last.c].position_ \notin {BOF, EOF}
         /\ ~isDirty(pre.cursors[last.c]) )
       => /\ last.exc = "none"
          /\ cursors = pre.cursors
          /\ data_ = pre.data_
          /\ log = <<>>

\* A discard that went through although the listener would have blocked.
C23_Witness ==
    /\ last.op = "discard"
    /\ ~last.lis.allowDiscard
    /\ IsInt(pre.cursors[last.c].position_)
    /\ isDirty(pre.cursors[last.c])
    /\ ~isDirty(cursors[last.c])
    /\ last.exc = "none"

\* C24: the loaded and the current values are never one object: in every
\* reachable state (after any moves, discards and saves) a setFieldValue
\* that returns has changed the one field of the current values only; the
\* loaded values, the other fields of the current values, the position and
\* the Datasource are as before.
C24_EditTouchesCurrentOnly ==
    /\ \A c \in Cursors : ~cursors[c].sameObject
    /\ (last.op = "setFieldValue" /\ last.exc = "none")
       => LET before == pre.cursors[last.c]
              after == cursors[last.c]
          IN  /\ after.currentRecordAsLoaded_ = before.currentRecordAsLoaded_
              /\ Deref(after.currentRecordValues_) =
                    SetProp(Deref(before.currentRecordValues_),
                            last.field, last.value)
              /\ \A k \in DOMAIN Deref(before.currentRecordValues_) \ {last.field} :
                    Deref(after.currentRecordValues_)[k] =
                        Deref(before.currentRecordValues_)[k]
              /\ after.position_ = before.position_
              /\ data_ = pre.data_
              /\ \A c \in Cursors \ {last.c} : cursors[c] = pre.cursors[c]

\* An edit of a clean record at an integer position (as a discard leaves
\* it) that changed the field and not the loaded value.
C24_Witness ==
    /\ last.op = "setFieldValue"
    /\ last.exc = "none"
    /\ IsInt(pre.cursors[last.c].position_)
    /\ ~isDirty(pre.cursors[last.c])
    /\ Deref(cursors[last.c].currentRecordValues_)[last.field] = last.value
    /\ ~LooseEq(Deref(cursors[last.c].currentRecordAsLoaded_)[last.field],
                last.value)

\* C25 as stated: save() with forceOverwrite at an integer position
\* replaces the row of the Datasource with the current values whether or
\* not the row still agrees with the loaded values, dispatches neither
\* BEFORE_OVERWRITE nor OVERWRITE, and dispatches SAVE carrying the
\* position, which is unchanged.
C25_ForcedSaveReplaces ==
    ( /\ last.op = "save"
      /\ last.force
      /\ IsInt(pre.cursors[last.c].position_) )
    => LET position == pre.cursors[last.c].position_
           current == Deref(pre.cursors[last.c].currentRecordValues_)
       IN  /\ last.exc = "none"
           /\ position.idx < Len(pre.data_)
           /\ data_ = SpliceReplace(pre.data_, position.idx, current)
           /\ ~Dispatched(last.c, "BEFORE_OVERWRITE")
           /\ ~Dispatched(last.c, "OVERWRITE")
           /\ TypesOf(EventsOf(last.c)) = <<"SAVE">>
           /\ EventsOf(last.c)[1].position = position
           /\ cursors[last.c].position_ = position
           /\ last.ret = position

\* C26: moveLast() (on a Cursor that is not dirty) moves the position to
\* one before EOF: to index rowCount - 1 when the Datasource has rows, and
\* to BOF when it is empty.
C26_MoveLastBeforeEOF ==
    (last.op = "moveLast" /\ ~isDirty(pre.cursors[last.c]))
    => /\ last.exc = "none"
       /\ cursors[last.c].position_ =
             IF Len(pre.data_) > 0 THEN Idx(Len(pre.data_) - 1) ELSE BOF

\* C27: moveFirst() on a Cursor that is not dirty never throws and ends at
\* index 0 when the Datasource has rows and at EOF when it has none, from
\* any starting position.
C27_MoveFirstTarget ==
    (last.op = "moveFirst" /\ ~isDirty(pre.cursors[last.c]))
    => /\ last.exc = "none"
       /\ cursors[last.c].position_ =
             IF Len(pre.data_) > 0 THEN Idx(0) ELSE EOF

\* moveFirst on an empty Datasource, from BOF to EOF.
C27_Witness ==
    /\ last.op = "moveFirst"
    /\ Len(pre.data_) = 0
    /\ pre.cursors[last.c].position_ = BOF
    /\ cursors[last.c].position_ = EOF
    /\ last.exc = "none"

\* C28: from BOF on a Datasource with n rows that nobody writes to,
\* moveRelative(1) repeated until the position is EOF takes exactly n + 1
\* calls, none of which throws, and visits the indices 0, 1, ..., n - 1 in
\* order, each once, before EOF; one further moveRelative(1) at EOF throws
\* IllegalMove.  (A call of the loop is enabled in every state in which no
\* call has thrown, and the number of calls is bounded: the loop ends.)
C28_ScanVisitsEachRowOnce ==
    LET n == Len(data_)
        position == cursors["c1"].position_
    IN  /\ Len(visited) <= n + 1
        /\ \A i \in 1 .. Len(visited) :
              visited[i] = IF i <= n THEN Idx(i - 1) ELSE EOF
        /\ position = IF visited = <<>> THEN BOF ELSE visited[Len(visited)]
        /\ position = EOF <=> Len(visited) = n + 1
        /\ data_ = pre.data_
        /\ last.exc # "none"
              => /\ last.exc = "IllegalMove"
                 /\ pre.cursors["c1"].position_ = EOF
                 /\ position = EOF
                 /\ log = <<>>

\* A scan of the longest Datasource, ended, and the further call made.
C28_Witness ==
    /\ Len(data_) = MaxScanRows
    /\ Len(visited) = MaxScanRows + 1
    /\ visited[MaxScanRows] = Idx(MaxScanRows - 1)
    /\ visited[MaxScanRows + 1] = EOF
    /\ last.exc = "IllegalMove"

\* The world the last call started in.
PreWorld ==
    [data_ |-> pre.data_, cur |-> pre.cursors, log |-> <<>>, seen |-> <<>>,
     exc |-> "none", ret |-> NoPos, obj |-> Null]

\* The method of the Cursor a call names, run again on the state the call
\* found, with the same arguments and the listeners answering lis.
Replay(call, lis) ==
    CASE call.op = "setPosition" ->
            setPosition(PreWorld, call.c, call.pos, lis)
      [] call.op = "moveRelative" ->
            moveRelative(PreWorld, call.c, call.num, lis)
      [] call.op = "moveFirst" -> moveFirst(PreWorld, call.c, lis)
      [] call.op = "moveLast" -> moveLast(PreWorld, call.c, lis)
      [] call.op = "moveNew" -> moveNew(PreWorld, call.c, lis)
      [] call.op = "maybeDiscard" ->
            maybeDiscard(PreWorld, call.c, call.pos, lis)
      [] call.op = "discard" -> discard(PreWorld, call.c, NoPos, lis)
      [] call.op = "setFieldValue" ->
            setFieldValue(PreWorld, call.c, call.field, call.value)
      [] call.op = "save" ->
            save(PreWorld, call.c, call.suppress, call.force, call.pos, lis)

ListenerMethods ==
    {"setPosition", "moveRelative", "moveFirst", "moveLast", "moveNew",
     "setFieldValue", "maybeDiscard", "discard", "save"}

\* C29: only BEFORE_DISCARD and BEFORE_OVERWRITE can be cancelled: a call
\* run twice from the same state with the same arguments, the listeners of
\* the other notifications (MOVE_FIRST, MOVE_FORWARD, MOVE_LAST, MOVE_TO,
\* CREATE_NEW, DISCARD, SAVE, OVERWRITE, MODIFIED) returning true in one
\* run and false in the other, ends with the same position, current and
\* loaded values and rows, and throws the same exception or none.
C29_InformationalNotCancellable ==
    last.op \in ListenerMethods
    => LET same == Replay(last, last.lis)
           other == Replay(last, [last.lis EXCEPT !.others = ~@])
       IN  /\ same.cur = cursors /\ same.data_ = data_
           /\ same.exc = last.exc /\ same.log = log
           /\ other.cur = cursors
           /\ other.data_ = data_
           /\ other.exc = last.exc
           /\ other.log = log

\* A move made although the listeners of MOVE_FORWARD and MOVE_TO returned
\* false.
C29_Witness ==
    /\ last.op = "moveRelative"
    /\ ~last.lis.others
    /\ last.exc = "none"
    /\ Dispatched(last.c, "MOVE_FORWARD")
    /\ Dispatched(last.c, "MOVE_TO")
    /\ cursors[last.c].position_ # pre.cursors[last.c].position_

\* The Datasource dispatched a notification of the type for the rows.
RowsNotified(type, affected) ==
    \E i \in 1 .. Len(log) :
        log[i].src = "ds" /\ log[i].type = type /\ log[i].rows = affected

\* The rows after insert(i, x) on rows r[0..n-1] (1-based in the model).
InsertedAt(rows, i, x, result) ==
    /\ Len(result) = Len(rows) + 1
    /\ \A j \in 0 .. i - 1 : result[j + 1] = rows[j + 1]
    /\ result[i + 1] = x
    /\ \A j \in i .. Len(rows) - 1 : result[j + 2] = rows[j + 1]

\* The rows after remove(i).
RemovedAt(rows, i, result) ==
    /\ Len(result) = Len(rows) - 1
    /\ \A j \in 0 .. i - 1 : result[j + 1] = rows[j + 1]
    /\ \A j \in i + 1 .. Len(rows) - 1 : result[j] = rows[j + 1]

\* C30 as stated: on rows r[0..n-1], insert(i, x) with 0 <= i <= n yields
\* n + 1 rows, those before i unchanged, row i equal to x and each old row
\* j >= i now at j + 1, and emits ROWS_INSERT with [i]; add(x) is
\* insert(n, x) and returns n; remove(i) with 0 <= i < n yields n - 1 rows,
\* each old row j > i now at j - 1, and emits ROWS_DELETE with [i].
C30_InsertAddRemove ==
    LET n == Len(pre.data_)
    IN  /\ (last.op = "insert" /\ 0 <= last.idx /\ last.idx <= n)
           => /\ InsertedAt(pre.data_, last.idx, Deref(last.rec), data_)
              /\ RowsNotified("ROWS_INSERT", <<last.idx>>)
        /\ last.op = "add"
           => /\ InsertedAt(pre.data_, n, Deref(last.rec), data_)
              /\ RowsNotified("ROWS_INSERT", <<n>>)
              /\ data_ = insert(PreWorld, n, Deref(last.rec)).data_
              /\ cursors = insert(PreWorld, n, Deref(last.rec)).cur
              /\ last.exc = "none"
              /\ last.ret = Idx(n)
        /\ (last.op = "remove" /\ 0 <= last.idx /\ last.idx < n)
           => /\ RemovedAt(pre.data_, last.idx, data_)
              /\ RowsNotified("ROWS_DELETE", <<last.idx>>)
              /\ last.exc = "none"

\* C31: get, replace, remove and atomicReplace with an index outside
\* [0, count), and insert with an index outside [0, count], throw
\* NoSuchRecord, leave the rows unchanged and dispatch no notification, so
\* no Cursor is repositioned.
C31_BadIndexThrows ==
    LET count == Len(pre.data_)
        outside == \/ /\ last.op \in {"get", "replace", "remove",
                                       "atomicReplace"}
                      /\ (last.idx < 0 \/ last.idx >= count)
                   \/ /\ last.op = "insert"
                      /\ (last.idx < 0 \/ last.idx > count)
    IN  outside
        => /\ last.exc = "NoSuchRecord"
           /\ data_ = pre.data_
           /\ log = <<>>
           /\ cursors = pre.cursors

\* A remove of the row just past the last one, while a Cursor is on a row.
C31_Witness ==
    /\ last.op = "remove"
    /\ last.idx = Len(pre.data_)
    /\ Len(pre.data_) > 0
    /\ \E c \in Cursors : IsInt(cursors[c].position_)
    /\ last.exc = "NoSuchRecord"

\* The places of the notifications of one type among those the Cursor of
\* the last call dispatched.
PlacesOf(type) ==
    {i \in 1 .. Len(EventsOf(last.c)) : EventsOf(last.c)[i].type = type}

\* The last call, a moveRelative that returned, dispatched MOVE_FORWARD
\* once, with the requested delta and the position the call ended at, after
\* the notifications of the discard protocol.
OneMoveForward ==
    /\ Cardinality(PlacesOf("MOVE_FORWARD")) = 1
    /\ \A i \in PlacesOf("MOVE_FORWARD") :
          /\ EventsOf(last.c)[i].numRows = last.num
          /\ EventsOf(last.c)[i].newPosition = cursors[last.c].position_
          /\ \A j \in PlacesOf("BEFORE_DISCARD") \cup PlacesOf("DISCARD") :
                j < i

\* C32 as stated: every moveRelative that returns dispatches MOVE_FORWARD
\* exactly once, with the requested delta and the resolved target, after
\* the discard protocol; every MOVE_TO of the call comes after it, and
\* there is exactly one MOVE_TO when the target differs from the starting
\* position and none when it is the same.
C32_AsStated ==
    (last.op = "moveRelative" /\ last.exc = "none")
    => /\ OneMoveForward
       /\ \A i \in PlacesOf("MOVE_FORWARD"), j \in PlacesOf("MOVE_TO") : i < j
       /\ Cardinality(PlacesOf("MOVE_TO")) =
             IF cursors[last.c].position_ # pre.cursors[last.c].position_
             THEN 1 ELSE 0

\* C32, amended: every moveRelative that returns dispatches MOVE_FORWARD
\* exactly once, with the requested delta and the resolved target, after
\* the discard protocol.  Unless the call started on a dirty NEW record,
\* every MOVE_TO comes after it, and there is one MOVE_TO when the target
\* differs from the starting position and none otherwise.  From a dirty NEW
\* record, discard() first moves the Cursor to the last row: that MOVE_TO
\* (NEW to rowCount - 1) precedes MOVE_FORWARD, and one more MOVE_TO
\* follows MOVE_FORWARD exactly when the target is not the last row.
C32_MoveForwardOnce ==
    (last.op = "moveRelative" /\ last.exc = "none")
    => LET start == pre.cursors[last.c].position_
           target == cursors[last.c].position_
           lastRow == Idx(Len(pre.data_) - 1)
           forward == CHOOSE i \in PlacesOf("MOVE_FORWARD") : TRUE
           before == {j \in PlacesOf("MOVE_TO") : j < forward}
           after == {j \in PlacesOf("MOVE_TO") : j > forward}
       IN  /\ OneMoveForward
           /\ IF start = NEW_ /\ isDirty(pre.cursors[last.c])
              THEN /\ Cardinality(before) = 1
                   /\ \A j \in before :
                         /\ EventsOf(last.c)[j].position = NEW_
                         /\ EventsOf(last.c)[j].newPosition = lastRow
                   /\ Cardinality(after) = IF target # lastRow THEN 1 ELSE 0
              ELSE /\ before = {}
                   /\ Cardinality(after) = IF target # start THEN 1 ELSE 0

\* moveRelative(0) on a dirty NEW record: MOVE_TO to the last row, then
\* MOVE_FORWARD, then MOVE_TO back to NEW.
C32_Witness ==
    /\ last.op = "moveRelative"
    /\ last.exc = "none"
    /\ last.num = 0
    /\ pre.cursors[last.c].position_ = NEW_
    /\ isDirty(pre.cursors[last.c])
    /\ cursors[last.c].position_ = NEW_
    /\ Cardinality(PlacesOf("MOVE_TO")) = 2

\* The position a setPosition or moveRelative call asks for, as a sequence
\* of at most one position: empty when moveRelative cannot resolve one.
RequestedTarget(call, cursor, rows) ==
    IF call.op = "setPosition" THEN <<call.pos>>
    ELSE LET target == RelativeTarget(cursor.position_, Len(rows), call.num)
         IN  IF target = <<>> THEN <<>>
             ELSE <<Clamp(target[1], Len(rows))>>

\* The last call dispatched BEFORE_DISCARD exactly once, with the
\* position the Cursor had and the target the call resolved.
OneBeforeDiscard ==
    LET target == RequestedTarget(last, pre.cursors[last.c], pre.data_)
    IN  /\ Cardinality(PlacesOf("BEFORE_DISCARD")) = 1
        /\ \A i \in PlacesOf("BEFORE_DISCARD") :
              /\ EventsOf(last.c)[i].position = pre.cursors[last.c].position_
              /\ target # <<>>
              /\ EventsOf(last.c)[i].newPosition = target[1]

\* C33 as stated: each setPosition or moveRelative on a dirty record
\* dispatches BEFORE_DISCARD exactly once.
C33_AsStated ==
    (/\ last.op \in {"setPosition", "moveRelative"}
     /\ isDirty(pre.cursors[last.c]))
    => /\ OneBeforeDiscard
       /\ ~last.lis.allowDiscard
          => \A type \in {"MOVE_FORWARD", "MOVE_TO", "DISCARD", "MODIFIED"} :
                PlacesOf(type) = {}

\* C33: each setPosition or moveRelative made on a dirty record, and not
\* rejected as an illegal move before the discard protocol, dispatches
\* BEFORE_DISCARD exactly once, with the current position and the resolved
\* target; when a listener cancels it, the call dispatches no MOVE_FORWARD,
\* MOVE_TO, DISCARD or MODIFIED.
C33_BeforeDiscardOnce ==
    (/\ last.op \in {"setPosition", "moveRelative"}
     /\ isDirty(pre.cursors[last.c])
     /\ LET target == RequestedTarget(last, pre.cursors[last.c], pre.data_)
        IN  /\ target # <<>>
            /\ ValidPosition(target[1], pre.data_))
    => /\ OneBeforeDiscard
       /\ ~last.lis.allowDiscard
          => /\ last.exc = "DiscardBlocked"
             /\ TypesOf(EventsOf(last.c)) = <<"BEFORE_DISCARD">>

\* A cancelled moveRelative from a dirty row past the last row: the one
\* BEFORE_DISCARD carries the row and EOF.
C33_Witness ==
    /\ last.op = "moveRelative"
    /\ last.exc = "DiscardBlocked"
    /\ IsInt(pre.cursors[last.c].position_)
    /\ isDirty(pre.cursors[last.c])
    /\ last.num > 1
    /\ OneBeforeDiscard
    /\ \A i \in PlacesOf("BEFORE_DISCARD") :
          EventsOf(last.c)[i].newPosition = EOF

\* The notification a named move dispatches before it calls setPosition.
AnnouncementOf(op) ==
    CASE op = "moveFirst" -> "MOVE_FIRST"
      [] op = "moveLast" -> "MOVE_LAST"
      [] op = "moveNew" -> "CREATE_NEW"
      [] OTHER -> "none"

\* C34: when moveFirst, moveLast or moveNew is called on a dirty record and
\* a listener cancels BEFORE_DISCARD, the call throws DiscardBlocked after
\* MOVE_FIRST, MOVE_LAST or CREATE_NEW was dispatched (before
\* BEFORE_DISCARD), and the position and the edits are as before the call;
\* a moveRelative cancelled the same way has dispatched no MOVE_FORWARD.
C34_AnnouncedBeforeBlocked ==
    (/\ last.op \in {"moveFirst", "moveLast", "moveNew", "moveRelative"}
     /\ isDirty(pre.cursors[last.c])
     /\ ~last.lis.allowDiscard
     /\ Dispatched(last.c, "BEFORE_DISCARD"))
    => /\ last.op \in {"moveFirst", "moveLast", "moveNew"}
          => /\ last.exc = "DiscardBlocked"
             /\ TypesOf(EventsOf(last.c))
                  = <<AnnouncementOf(last.op), "BEFORE_DISCARD">>
             /\ cursors[last.c] = pre.cursors[last.c]
             /\ isDirty(cursors[last.c])
       /\ last.op = "moveRelative"
          => /\ last.exc = "DiscardBlocked"
             /\ PlacesOf("MOVE_FORWARD") = {}
             /\ cursors[last.c] = pre.cursors[last.c]

\* A cancelled moveNew from a dirty row: CREATE_NEW was dispatched.
C34_Witness ==
    /\ last.op = "moveNew"
    /\ last.exc = "DiscardBlocked"
    /\ IsInt(pre.cursors[last.c].position_)
    /\ isDirty(cursors[last.c])
    /\ TypesOf(EventsOf(last.c)) = <<"CREATE_NEW", "BEFORE_DISCARD">>

\* The position a move that returns was asked to reach.
ResolvedTarget(call, cursor, rows) ==
    CASE call.op \in {"setPosition", "moveRelative"}
           -> RequestedTarget(call, cursor, rows)[1]
      [] call.op = "moveFirst"
           -> IF Len(rows) = 0 THEN EOF ELSE Idx(0)
      [] call.op = "moveLast" -> Idx(Len(rows) - 1)
      [] call.op = "moveNew" -> NEW_
      [] OTHER -> NoPos

\* C35: after setPosition, moveRelative, moveFirst, moveLast or moveNew
\* returns normally, from any starting state, getPosition() is the target
\* the call resolved and isDirty() is false.
C35_MoveReachesTarget ==
    (/\ last.op \in {"setPosition", "moveRelative", "moveFirst",
                      "moveLast", "moveNew"}
     /\ last.exc = "none")
    => /\ cursors[last.c].position_
            = ResolvedTarget(last, pre.cursors[last.c], pre.data_)
       /\ ~isDirty(cursors[last.c])

\* moveFirst from a dirty NEW record returned: the Cursor is on row 0 and
\* clean.
C35_Witness ==
    /\ last.op = "moveFirst"
    /\ last.exc = "none"
    /\ pre.cursors[last.c].position_ = NEW_
    /\ isDirty(pre.cursors[last.c])
    /\ Len(pre.data_) > 1
    /\ cursors[last.c].position_ = Idx(0)
    /\ ~isDirty(cursors[last.c])

\* The record a Cursor holds fits its position: no record at BOF and EOF,
\* two records elsewhere, with no key but the column names.
ConsistentRecord(cursor) ==
    /\ (IsNull(cursor.currentRecordValues_)
            /\ IsNull(cursor.currentRecordAsLoaded_))
         <=> cursor.position_ \in {BOF, EOF}
    /\ cursor.position_ \notin {BOF, EOF}
         => /\ ~IsNull(cursor.currentRecordValues_)
            /\ ~IsNull(cursor.currentRecordAsLoaded_)
            /\ DOMAIN Deref(cursor.currentRecordValues_) \subseteq ColumnNames
            /\ DOMAIN Deref(cursor.currentRecordAsLoaded_)
                  \subseteq ColumnNames

\* The places in the log of the MOVE_TO notifications of Cursor c to an
\* integer position: each marks a moveInternal that completed.
MovesToRow(c) ==
    {i \in 1 .. Len(log) : /\ log[i].src = c
                            /\ log[i].type = "MOVE_TO"
                            /\ IsInt(log[i].newPosition)}

\* The two records of a Cursor hold every column name with the value of
\* the row at its position.
HoldsRow(cursor, rows) ==
    /\ cursor.currentRecordValues_ = RecordAt(cursor.position_, rows)
    /\ cursor.currentRecordAsLoaded_ = RecordAt(cursor.position_, rows)
    /\ DOMAIN Deref(cursor.currentRecordValues_) = ColumnNames
    /\ DOMAIN Deref(cursor.currentRecordAsLoaded_) = ColumnNames

C37_OnlySaveWrites ==
    last.op \in {"setPosition", "moveRelative", "moveFirst", "moveLast",
                 "moveNew", "setFieldValue", "maybeDiscard", "discard"}
    => /\ data_ = pre.data_
       /\ \A i \in 1 .. Len(seen) : seen[i].data_ = pre.data_

\* A discard of the edits of a row: the Cursor is clean again and the rows
\* are the same.
C37_Witness ==
    /\ last.op = "discard"
    /\ last.exc = "none"
    /\ IsInt(pre.cursors[last.c].position_)
    /\ isDirty(pre.cursors[last.c])
    /\ ~isDirty(cursors[last.c])
    /\ data_ = pre.data_
    /\ Len(data_) > 0

\* C38 as stated: when Datasource.insert(i, record) with i <= p has moved
\* a Cursor from an integer position p to p + 1, the row at p + 1 is the
\* row that was at p, and
\* the loadedValues of the Cursor are that row (each column with the value
\* the row has for it).
C38_InsertKeepsRecord ==
    \A c \in Cursors :
        LET p == pre.cursors[c].position_
        IN  (/\ last.op = "insert"
             /\ IsInt(p)
             /\ 0 <= last.idx
             /\ last.idx <= p.idx
             /\ cursors[c].position_ = Idx(p.idx + 1))
            => /\ Len(data_) = Len(pre.data_) + 1
               /\ p.idx < Len(pre.data_)
               /\ data_[p.idx + 2] = pre.data_[p.idx + 1]
               /\ cursors[c].currentRecordAsLoaded_
                    = Ref(ProjectOnColumns(pre.data_[p.idx + 1]))

\* C39: Datasource.remove(i) and Datasource.replace(i, record) change no
\* Cursor's position, currentValues or loadedValues, and no Cursor
\* dispatches a notification, for every i and every position.
C39_CursorIgnoresRemoveReplace ==
    last.op \in {"remove", "replace"}
    => /\ cursors = pre.cursors
       /\ \A i \in 1 .. Len(log) : log[i].src = "ds"
       /\ \A i \in 1 .. Len(seen) : seen[i].cur = pre.cursors

\* A row removed under a Cursor that stands on it: the row is gone, one
\* ROWS_DELETE was dispatched, and the Cursor still holds the record.
C39_Witness ==
    /\ last.op = "remove"
    /\ last.exc = "none"
    /\ Len(data_) = Len(pre.data_) - 1
    /\ pre.cursors["c1"].position_ = Idx(last.idx)
    /\ cursors["c1"] = pre.cursors["c1"]
    /\ ~IsNull(cursors["c1"].currentRecordAsLoaded_)
    /\ TypesOf(log) = <<"ROWS_DELETE">>

\* save() called once more by the Cursor of the last call, on the state
\* that call left.
SaveAgain(suppress, force, lis) ==
    save(World, last.c, suppress, force, NoPos, lis)

\* The second save left everything as the first did.
SameAfter(W) ==
    /\ W.exc = "none"
    /\ W.data_ = data_
    /\ W.cur[last.c].position_ = cursors[last.c].position_
    /\ W.cur[last.c].currentRecordValues_
          = cursors[last.c].currentRecordValues_
    /\ W.cur[last.c].currentRecordAsLoaded_
          = cursors[last.c].currentRecordAsLoaded_
    /\ \A c \in Cursors \ {last.c} : W.cur[c] = cursors[c]
    /\ \A i \in 1 .. Len(W.log) : W.log[i].type # "BEFORE_OVERWRITE"
    /\ W.ret = last.ret

\* C40: after save() at an integer position has returned, a second save()
\* right away, whatever the listeners answer, leaves the rows, the
\* position, currentValues and loadedValues as they are, dispatches no
\* BEFORE_OVERWRITE and returns the same position.
C40_SaveTwice ==
    (/\ last.op = "save"
     /\ last.exc = "none"
     /\ IsInt(pre.cursors[last.c].position_))
    => \A suppress \in BOOLEAN, force \in BOOLEAN, lis \in Listeners :
          SameAfter(SaveAgain(suppress, force, lis))

\* A save of an edited row that another write had changed: the first save
\* asked BEFORE_OVERWRITE and overwrote, a second one changes nothing.
C40_Witness ==
    /\ last.op = "save"
    /\ last.exc = "none"
    /\ ~last.force
    /\ IsInt(pre.cursors[last.c].position_)
    /\ isDirty(pre.cursors[last.c])
    /\ Dispatched(last.c, "BEFORE_OVERWRITE")
    /\ data_ # pre.data_
    /\ SameAfter(SaveAgain(FALSE, FALSE, last.lis))

====
